---------------------------- MODULE Spec2Model ----------------------------
(***************************************************************************)
(* A model of tcat's transaction collection engine                         *)
(* (src/src/tcat/transaction.py): Transaction, and the filter, sort,       *)
(* group, merge and frequency statistics operations of Transactions.       *)
(*                                                                         *)
(* Representation.  A Python str is a sequence of one-character strings,   *)
(* so that lower() and the substring test `in` are computed and not        *)
(* assumed.  An Optional[str] is None (the empty tuple) or Some(s) (the    *)
(* one-element tuple holding s), so that None and '' differ.  A float      *)
(* amount is an integer number of cents.  A datetime.date is a record      *)
(* [year, month, day] of the proleptic Gregorian calendar.  A list is a    *)
(* sequence.  A dict is the set of its entries [key, items]; the keys of    *)
(* group's result are distinct by construction.                            *)
(***************************************************************************)
EXTENDS Integers, Sequences, FiniteSets, TLC

VARIABLES
    items,   \* Transactions.items of the collection the calls are made on
    other,   \* a second collection (an argument of merge)
    op,      \* the last call made: "new" until a call is made
    args,    \* the arguments of the last call
    res,     \* what the last call returned (<<>> when it raised)
    exc      \* the message of the exception the last call raised, "" if none

vars == <<items, other, op, args, res, exc>>

-----------------------------------------------------------------------------
(* Bounds of the model.                                                    *)

\* The longest collection the filter and group calls are made on.
MaxLen == 3

\* The longest collection handed to merge.
MaxMergeLen == 2

\* The longest second collection handed to merge.
MaxOtherLen == 1

\* The longest argument list of one merge call.
MaxArgs == 3

\* The largest stride (interval) of a date grouping.
MaxInterval == 2

-----------------------------------------------------------------------------
(* Python strings.                                                         *)

None == <<>>
Some(s) == <<s>>

\* str.lower(), one character
LowerTable ==
    [A |-> "a", B |-> "b", C |-> "c", D |-> "d", E |-> "e", F |-> "f",
     G |-> "g", H |-> "h", I |-> "i", J |-> "j", K |-> "k", L |-> "l",
     M |-> "m", N |-> "n", O |-> "o", P |-> "p", Q |-> "q", R |-> "r",
     S |-> "s", T |-> "t", U |-> "u", V |-> "v", W |-> "w", X |-> "x",
     Y |-> "y", Z |-> "z"]

LowerChar(c) == IF c \in DOMAIN LowerTable THEN LowerTable[c] ELSE c

\* str.lower()
Lower(s) == [i \in DOMAIN s |-> LowerChar(s[i])]

\* the substring test  a in b  of two strings
Contains(b, a) ==
    \E k \in 0..(Len(b) - Len(a)) :
        \A i \in 1..Len(a) : b[k + i] = a[i]

\* int(s) of a string of decimal digits
DigitTable ==
    [c \in {"0", "1", "2", "3", "4", "5", "6", "7", "8", "9"} |->
        CASE c = "0" -> 0 [] c = "1" -> 1 [] c = "2" -> 2 [] c = "3" -> 3
          [] c = "4" -> 4 [] c = "5" -> 5 [] c = "6" -> 6 [] c = "7" -> 7
          [] c = "8" -> 8 [] c = "9" -> 9]

RECURSIVE ParseInt(_)
ParseInt(s) ==
    IF s = <<>> THEN 0
    ELSE 10 * ParseInt(SubSeq(s, 1, Len(s) - 1)) + DigitTable[s[Len(s)]]

\* s.split('/'): the pieces of s between the slashes
RECURSIVE Split(_)
Split(s) ==
    IF \A i \in DOMAIN s : s[i] # "/" THEN <<s>>
    ELSE LET k == CHOOSE i \in DOMAIN s :
                      s[i] = "/" /\ \A j \in 1..(i - 1) : s[j] # "/"
         IN  <<SubSeq(s, 1, k - 1)>> \o Split(SubSeq(s, k + 1, Len(s)))

\* list(map(int, s.split('/')))
ParseDateStr(s) == LET p == Split(s) IN [i \in DOMAIN p |-> ParseInt(p[i])]

-----------------------------------------------------------------------------
(* datetime.date, dateutil.relativedelta and dateutil.rrule.               *)

Date(y, m, d) == [year |-> y, month |-> m, day |-> d]

IsLeap(y) == (y % 4 = 0) /\ ((y % 100 # 0) \/ (y % 400 = 0))

MonthLengths == <<31, 28, 31, 30, 31, 30, 31, 31, 30, 31, 30, 31>>

\* the number of days of month m of year y
MonthLen(y, m) == IF m = 2 /\ IsLeap(y) THEN 29 ELSE MonthLengths[m]

DaysBeforeYear(y) ==
    (y - 1) * 365 + ((y - 1) \div 4) - ((y - 1) \div 100) + ((y - 1) \div 400)

RECURSIVE DaysBeforeMonth(_, _)
DaysBeforeMonth(y, m) ==
    IF m = 1 THEN 0 ELSE DaysBeforeMonth(y, m - 1) + MonthLen(y, m - 1)

\* date.toordinal()
ToOrdinal(d) == DaysBeforeYear(d.year) + DaysBeforeMonth(d.year, d.month) + d.day

\* date.fromordinal(n)
FromOrdinal(n) ==
    LET y == CHOOSE yy \in ((n \div 366) - 1)..((n \div 365) + 1) :
                 DaysBeforeYear(yy) < n /\ n <= DaysBeforeYear(yy + 1)
        r == n - DaysBeforeYear(y)
        m == CHOOSE mm \in 1..12 :
                 DaysBeforeMonth(y, mm) < r
                 /\ r <= DaysBeforeMonth(y, mm) + MonthLen(y, mm)
    IN  Date(y, m, r - DaysBeforeMonth(y, m))

\* date.weekday(): Monday is 0, Sunday is 6
Weekday(d) == (ToOrdinal(d) + 6) % 7

DateLT(a, b) == ToOrdinal(a) < ToOrdinal(b)
DateLE(a, b) == ToOrdinal(a) <= ToOrdinal(b)

\* (a - b).days
DaysBetween(a, b) == ToOrdinal(a) - ToOrdinal(b)

MinOf(a, b) == IF a < b THEN a ELSE b

\* d + relativedelta(months=n): the day is clipped to the month's length
AddMonths(d, n) ==
    LET k == (d.year * 12 + (d.month - 1)) + n
        y == k \div 12
        m == (k % 12) + 1
    IN  Date(y, m, MinOf(d.day, MonthLen(y, m)))

AddDays(d, n) == FromOrdinal(ToOrdinal(d) + n)

-----------------------------------------------------------------------------
(* Transaction.                                                            *)

\* the dataclass constructor: the fields are stored as given
Transaction(account, amount, balance, bank, date, desc, name, note, tags) ==
    [account |-> account, amount |-> amount, balance |-> balance,
     bank |-> bank, date |-> date, desc |-> desc,
     name |-> name, note |-> note, tags |-> tags]

\* __eq__ had the name field not been declared compare=False
TxEqComparingName(a, b) ==
    /\ a.account = b.account
    /\ a.amount = b.amount
    /\ a.balance = b.balance
    /\ a.bank = b.bank
    /\ a.date = b.date
    /\ a.desc = b.desc
    /\ a.name = b.name

\* Transaction.__eq__ of the dataclass: name, note and tags are compare=False
TxEq(a, b) ==
    /\ a.account = b.account
    /\ a.amount = b.amount
    /\ a.balance = b.balance
    /\ a.bank = b.bank
    /\ a.date = b.date
    /\ a.desc = b.desc

\* Transaction.is_named()
is_named(t) == t.name # None /\ t.name[1] # <<>>

\* Transaction.has_note()
has_note(t) == t.note # None /\ t.note[1] # <<>>

\* Transaction.is_categorized()
is_categorized(t) == Len(t.tags) > 0

\* x in xs, for a list xs
InList(x, xs) == \E i \in DOMAIN xs : xs[i] = x

-----------------------------------------------------------------------------
(* Transactions.filter.                                                    *)
(* kwargs is a function from keyword names to values.  The value of a      *)
(* criterion is [shape, v]: shape is the Python type the code dispatches   *)
(* on ("str", "list", "tuple", "int", "date"), or "fn" for a callable,     *)
(* whose v is the set of arguments it returns True on.  The value of       *)
(* negate is a Boolean.                                                    *)

ALLOWED_KEYS ==
    {"account", "amount", "balance", "bank", "date", "desc", "name",
     "negate", "note", "tags"}

DAYS_IN_MONTH == <<31, 28, 31, 30, 31, 30, 31, 31, 30, 31, 30, 31>>

\* Transactions.dates(), and max() of it
dates(its) == {its[i].date : i \in DOMAIN its}

\* min() in the place of max()
MinDate(ds) == CHOOSE d \in ds : \A e \in ds : DateLE(d, e)

MaxDate(ds) == CHOOSE d \in ds : \A e \in ds : DateLE(e, d)

Negate(kwargs) == "negate" \in DOMAIN kwargs /\ kwargs["negate"]

\* Each Skip operator is TRUE when the code reaches `continue` in the block
\* of that keyword.
SkipBank(t, c, negate) ==
    IF c.shape = "str"
    THEN IF negate THEN Lower(c.v) = Lower(t.bank)
                   ELSE Lower(c.v) # Lower(t.bank)
    ELSE IF negate THEN t.bank \in c.v ELSE t.bank \notin c.v

SkipAccount(t, c, negate) ==
    IF c.shape = "str"
    THEN IF negate THEN Lower(c.v) = Lower(t.account)
                   ELSE Lower(c.v) # Lower(t.account)
    ELSE IF negate THEN t.account \in c.v ELSE t.account \notin c.v

SkipTags(t, c, negate) ==
    IF c.shape = "str"
    THEN IF negate THEN InList(c.v, t.tags) ELSE ~InList(c.v, t.tags)
    ELSE IF c.shape = "list"
    THEN LET any == \E i \in DOMAIN c.v : InList(c.v[i], t.tags)
         IN  IF negate THEN any ELSE ~any
    ELSE LET ts == {t.tags[i] : i \in DOMAIN t.tags}
         IN  IF negate THEN ts \in c.v ELSE ts \notin c.v

SkipName(t, c, negate) ==
    IF c.shape = "str"
    THEN IF negate
         THEN is_named(t) /\ Contains(Lower(t.name[1]), Lower(c.v))
         ELSE ~is_named(t) \/ ~Contains(Lower(t.name[1]), Lower(c.v))
    ELSE IF negate THEN t.name \in c.v ELSE t.name \notin c.v

SkipDesc(t, c, negate) ==
    IF c.shape = "str"
    THEN IF negate THEN Contains(Lower(t.desc), Lower(c.v))
                   ELSE ~Contains(Lower(t.desc), Lower(c.v))
    ELSE IF negate THEN t.desc \in c.v ELSE t.desc \notin c.v

SkipNote(t, c, negate) ==
    IF c.shape = "str"
    THEN IF negate
         THEN has_note(t) /\ Contains(Lower(t.note[1]), Lower(c.v))
         ELSE ~has_note(t) \/ ~Contains(Lower(t.note[1]), Lower(c.v))
    ELSE IF negate THEN t.note \in c.v ELSE t.note \notin c.v

DepositTokens == {<<"+">>, <<"d">>, <<"d", "e", "p", "o", "s", "i", "t">>}
WithdrawalTokens ==
    {<<"-">>, <<"w">>, <<"w", "i", "t", "h", "d", "r", "a", "w", "a", "l">>}

\* SkipAmount with a zero amount counted as a deposit and as a withdrawal
SkipAmountZeroCounted(t, c, negate) ==
    IF c.shape = "str"
    THEN \/ /\ Lower(c.v) \in DepositTokens
            /\ IF negate THEN t.amount >= 0 ELSE t.amount < 0
         \/ /\ Lower(c.v) \in WithdrawalTokens
            /\ IF negate THEN t.amount <= 0 ELSE t.amount > 0
    ELSE IF c.shape = "tuple"
    THEN IF negate THEN t.amount >= c.v[1] /\ t.amount <= c.v[2]
                   ELSE t.amount < c.v[1] \/ t.amount > c.v[2]
    ELSE IF negate THEN t.amount \in c.v ELSE t.amount \notin c.v

SkipAmount(t, c, negate) ==
    IF c.shape = "str"
    THEN \/ /\ Lower(c.v) \in DepositTokens
            /\ IF negate THEN t.amount > 0 ELSE t.amount <= 0
         \/ /\ Lower(c.v) \in WithdrawalTokens
            /\ IF negate THEN t.amount < 0 ELSE t.amount >= 0
    ELSE IF c.shape = "tuple"
    THEN IF negate THEN t.amount >= c.v[1] /\ t.amount <= c.v[2]
                   ELSE t.amount < c.v[1] \/ t.amount > c.v[2]
    ELSE IF negate THEN t.amount \in c.v ELSE t.amount \notin c.v

\* the lower and the upper bound of a tuple of two partial date strings
DateLowerBound(s) ==
    LET sd1 == ParseDateStr(s)
        y == sd1[1]
        m == IF Len(sd1) < 2 THEN 1 ELSE sd1[2]
        d == IF Len(sd1) < 3 THEN 1 ELSE sd1[3]
    IN  Date(y, m, d)

DateUpperBound(s) ==
    LET sd2 == ParseDateStr(s)
        y == sd2[1]
        m == IF Len(sd2) < 2 THEN 12 ELSE sd2[2]
        d == IF Len(sd2) < 3 THEN DAYS_IN_MONTH[m] ELSE sd2[3]
    IN  Date(y, m, d)

\* SkipDate with the two branches of the integer case exchanged
SkipDateIntBranchesSwapped(t, c, negate, most_recent_date) ==
    IF c.shape = "int"
    THEN IF negate THEN DaysBetween(most_recent_date, t.date) > c.v
                   ELSE DaysBetween(most_recent_date, t.date) <= c.v
    ELSE IF c.shape = "str"
    THEN LET sd == ParseDateStr(c.v)
         IN  IF negate
             THEN \/ Len(sd) >= 1 /\ t.date.year = sd[1]
                  \/ Len(sd) >= 2 /\ t.date.month = sd[2]
                  \/ Len(sd) >= 3 /\ t.date.day = sd[3]
             ELSE \/ Len(sd) >= 1 /\ t.date.year # sd[1]
                  \/ Len(sd) >= 2 /\ t.date.month # sd[2]
                  \/ Len(sd) >= 3 /\ t.date.day # sd[3]
    ELSE IF c.shape = "tuple"
    THEN LET lowerbound == DateLowerBound(c.v[1])
             upperbound == DateUpperBound(c.v[2])
         IN  IF negate
             THEN DateLE(lowerbound, t.date) /\ DateLE(t.date, upperbound)
             ELSE DateLT(t.date, lowerbound) \/ DateLT(upperbound, t.date)
    ELSE IF c.shape = "date"
    THEN IF negate THEN t.date = c.v ELSE t.date # c.v
    ELSE IF negate THEN t.date \in c.v ELSE t.date \notin c.v

SkipDate(t, c, negate, most_recent_date) ==
    IF c.shape = "int"
    THEN IF negate THEN DaysBetween(most_recent_date, t.date) <= c.v
                   ELSE DaysBetween(most_recent_date, t.date) > c.v
    ELSE IF c.shape = "str"
    THEN LET sd == ParseDateStr(c.v)
         IN  IF negate
             THEN \/ Len(sd) >= 1 /\ t.date.year = sd[1]
                  \/ Len(sd) >= 2 /\ t.date.month = sd[2]
                  \/ Len(sd) >= 3 /\ t.date.day = sd[3]
             ELSE \/ Len(sd) >= 1 /\ t.date.year # sd[1]
                  \/ Len(sd) >= 2 /\ t.date.month # sd[2]
                  \/ Len(sd) >= 3 /\ t.date.day # sd[3]
    ELSE IF c.shape = "tuple"
    THEN LET lowerbound == DateLowerBound(c.v[1])
             upperbound == DateUpperBound(c.v[2])
         IN  IF negate
             THEN DateLE(lowerbound, t.date) /\ DateLE(t.date, upperbound)
             ELSE DateLT(t.date, lowerbound) \/ DateLT(upperbound, t.date)
    ELSE IF c.shape = "date"
    THEN IF negate THEN t.date = c.v ELSE t.date # c.v
    ELSE IF negate THEN t.date \in c.v ELSE t.date \notin c.v

\* TRUE when the loop body appends t to `filtered`
Kept(t, kwargs, most_recent_date) ==
    LET negate == Negate(kwargs)
        has(k) == k \in DOMAIN kwargs
    IN  /\ has("bank") => ~SkipBank(t, kwargs["bank"], negate)
        /\ has("account") => ~SkipAccount(t, kwargs["account"], negate)
        /\ has("tags") => ~SkipTags(t, kwargs["tags"], negate)
        /\ has("name") => ~SkipName(t, kwargs["name"], negate)
        /\ has("desc") => ~SkipDesc(t, kwargs["desc"], negate)
        /\ has("note") => ~SkipNote(t, kwargs["note"], negate)
        /\ has("amount") => ~SkipAmount(t, kwargs["amount"], negate)
        /\ has("date") =>
               ~SkipDate(t, kwargs["date"], negate, most_recent_date)

\* the keywords in the order of their blocks in the loop body
FilterOrder ==
    <<"bank", "account", "tags", "name", "desc", "note", "amount", "date">>

\* the shapes the isinstance tests of a keyword's block recognise; a value of
\* any other shape is called as a function
Recognised(key) ==
    CASE key = "tags" -> {"str", "list"}
      [] key = "amount" -> {"str", "tuple"}
      [] key = "date" -> {"int", "str", "tuple", "date"}
      [] OTHER -> {"str"}

\* int(s) raises ValueError: s is empty or holds a character that is no digit
NotAnInt(s) == s = <<>> \/ \E i \in DOMAIN s : s[i] \notin DOMAIN DigitTable

\* list(map(int, s.split('/'))) raises ValueError
BadDateStr(s) == LET p == Split(s) IN \E i \in DOMAIN p : NotAnInt(p[i])

\* the exception the block of `key` raises when a transaction reaches it, ""
\* when it raises none: a value that is neither of a recognised shape nor a
\* callable is called (TypeError), a date string is parsed (ValueError)
BlockError(key, c) ==
    IF c.shape \notin Recognised(key) \cup {"fn"} THEN "TypeError"
    ELSE IF key = "date" /\ c.shape = "str" /\ BadDateStr(c.v)
    THEN "ValueError"
    ELSE IF key = "date" /\ c.shape = "tuple"
            /\ (BadDateStr(c.v[1]) \/ BadDateStr(c.v[2]))
    THEN "ValueError"
    ELSE ""

\* TRUE when the block of `key` reaches `continue` for t
Skip(key, t, c, negate, most_recent_date) ==
    CASE key = "bank" -> SkipBank(t, c, negate)
      [] key = "account" -> SkipAccount(t, c, negate)
      [] key = "tags" -> SkipTags(t, c, negate)
      [] key = "name" -> SkipName(t, c, negate)
      [] key = "desc" -> SkipDesc(t, c, negate)
      [] key = "note" -> SkipNote(t, c, negate)
      [] key = "amount" -> SkipAmount(t, c, negate)
      [] key = "date" -> SkipDate(t, c, negate, most_recent_date)

\* the blocks that raise when reached, and the first of them that t reaches:
\* t reaches a block when no earlier block has skipped it
RaisingBlocks(kwargs) ==
    {i \in DOMAIN FilterOrder :
        /\ FilterOrder[i] \in DOMAIN kwargs
        /\ BlockError(FilterOrder[i], kwargs[FilterOrder[i]]) # ""}

Reaches(t, i, kwargs, most_recent_date) ==
    \A j \in 1..(i - 1) :
        FilterOrder[j] \in DOMAIN kwargs
        => /\ j \notin RaisingBlocks(kwargs)
           /\ ~Skip(FilterOrder[j], t, kwargs[FilterOrder[j]],
                    Negate(kwargs), most_recent_date)

\* the exception filter raises, "" when it raises none
FilterError(its, kwargs) ==
    IF \E key \in DOMAIN kwargs : key \notin ALLOWED_KEYS
    THEN "unknown filter key"
    ELSE IF Len(its) < 2 THEN ""
    ELSE LET most_recent_date == MaxDate(dates(its))
             raised == {i \in RaisingBlocks(kwargs) :
                           \E n \in DOMAIN its :
                               Reaches(its[n], i, kwargs, most_recent_date)}
         IN  IF raised = {} THEN ""
             ELSE LET i == CHOOSE x \in raised : \A y \in raised : x <= y
                  IN  BlockError(FilterOrder[i], kwargs[FilterOrder[i]])

\* filter without the early return for a collection of one transaction
FilterSingleton(its, kwargs) ==
    IF Len(its) < 1 THEN its
    ELSE LET most_recent_date == MaxDate(dates(its))
             keep(t) == Kept(t, kwargs, most_recent_date)
         IN  SelectSeq(its, keep)

\* Transactions.filter(**kwargs).items, for kwargs that raise nothing
Filter(its, kwargs) ==
    IF Len(its) < 2 THEN its
    ELSE LET most_recent_date == MaxDate(dates(its))
             keep(t) == Kept(t, kwargs, most_recent_date)
         IN  SelectSeq(its, keep)

-----------------------------------------------------------------------------
(* The values the calls are made on.                                       *)

S_b1 == <<"b", "1">>
S_B1 == <<"B", "1">>
S_b2 == <<"b", "2">>
S_ck == <<"c", "k">>
S_sv == <<"s", "v">>
S_food == <<"f", "d">>
S_pizza == <<"p", "z">>
S_subs == <<"s", "b">>
S_Pi == <<"P", "i">>
S_Sub == <<"S", "u", "b">>
S_PZ1 == <<"P", "Z", "1">>
S_PZ2 == <<"P", "Z", "2">>
S_SUB == <<"S", "U", "B">>
S_TR == <<"T", "R">>
S_Got == <<"G", "o", "t">>

D1 == Date(2020, 4, 13)
D2 == Date(2020, 4, 19)
D3 == Date(2020, 3, 19)
D4 == Date(2021, 6, 1)
D5 == Date(2020, 4, 16)

\* T1..T4 are the transactions of the tests' fixtures (strings shortened, so
\* that bank1 is spelt in two cases); T5 has a zero amount and empty strings.
T1 == Transaction(S_ck, -375, 6745, S_B1, D1, S_PZ1,
                  Some(S_Pi), Some(S_Got), <<S_food, S_pizza>>)
T2 == Transaction(S_sv, 411, 98233, S_b1, D2, S_TR, None, None, <<>>)
T3 == Transaction(S_ck, -947, -1618, S_b2, D3, S_PZ2,
                  Some(S_Pi), Some(S_Got), <<S_food, S_pizza>>)
T4 == Transaction(S_ck, -6401, 1918, S_b1, D4, S_SUB,
                  Some(S_Sub), Some(S_Got), <<S_food, S_subs>>)
T5 == Transaction(S_sv, 0, 1918, S_b1, D5, S_TR, Some(<<>>), Some(<<>>), <<>>)

\* T6 is dated on the 29th of February of a leap year.
D6 == Date(2020, 2, 29)
T6 == Transaction(S_ck, 2500, 4418, S_b2, D6, S_TR, None, None, <<>>)

\* the sequences over S of length at most n
SeqsUpTo(S, n) == UNION {[1..k -> S] : k \in 0..n}

FilterPool == {T1, T2, T3, T4, T5, T6}

Crit(shape, v) == [shape |-> shape, v |-> v]

\* one criterion of a non-callable shape, by keyword
StringCriteria ==
    {[bank |-> Crit("str", S_b1)],
     [account |-> Crit("str", <<"C", "K">>)],
     [tags |-> Crit("str", S_food)],
     [tags |-> Crit("list", <<S_pizza, S_subs>>)],
     [name |-> Crit("str", <<"p", "i">>)],
     [name |-> Crit("str", <<>>)],
     [desc |-> Crit("str", <<"p", "z">>)],
     [note |-> Crit("str", <<"g", "O", "T">>)],
     [amount |-> Crit("str", <<"+">>)],
     [amount |-> Crit("str", <<"D">>)],
     [amount |-> Crit("str", <<"d", "e", "p", "o", "s", "i", "t">>)],
     [amount |-> Crit("str", <<"-">>)],
     [amount |-> Crit("str", <<"w">>)],
     [amount |-> Crit("str",
                      <<"W", "i", "t", "h", "d", "r", "a", "w", "a", "l">>)],
     [amount |-> Crit("tuple", <<-1000, -100>>)]}

DateCriteria ==
    {[date |-> Crit("int", 3)],
     [date |-> Crit("int", 6)],
     [date |-> Crit("str", <<"2", "0", "2", "0">>)],
     [date |-> Crit("str", <<"2", "0", "2", "0", "/", "0", "4">>)],
     [date |-> Crit("str",
                    <<"2", "0", "2", "0", "/", "0", "4", "/", "1", "3">>)],
     [date |-> Crit("tuple", << <<"2", "0", "2", "0", "/", "0", "3">>,
                                <<"2", "0", "2", "0", "/", "0", "4">> >>)],
     [date |-> Crit("tuple", << <<"2", "0", "2", "0", "/", "0", "2">>,
                                <<"2", "0", "2", "0", "/", "0", "2">> >>)],
     [date |-> Crit("tuple", << <<"2", "0", "2", "0">>,
                                <<"2", "0", "2", "0">> >>)],
     [date |-> Crit("tuple",
                    << <<"2", "0", "2", "0", "/", "0", "4", "/", "1", "6">>,
                       <<"2", "0", "2", "1">> >>)],
     [date |-> Crit("date", D1)]}

\* one criterion given as a callable
CallableCriteria ==
    {[bank |-> Crit("fn", {S_b1})],
     [amount |-> Crit("fn", {-947, -6401})],
     [date |-> Crit("fn", {D1, D3})]}

SingleCriteria == StringCriteria \cup DateCriteria

\* keywords that are none of the eight criteria: balance is in ALLOWED_KEYS
UnknownKeyCriteria ==
    {[balance |-> Crit("tuple", <<0, 10000>>)],
     [category |-> Crit("str", S_food)],
     [bank |-> Crit("str", S_b1), banks |-> Crit("str", S_b1)]}

\* one criterion whose value is of no shape its block recognises and is not
\* callable, alone and behind a criterion that skips transactions
BadShapeCriteria ==
    {[bank |-> Crit("list", <<S_b1>>)],
     [tags |-> Crit("tuple", <<S_food, S_pizza>>)],
     [name |-> Crit("int", 7)],
     [amount |-> Crit("str", <<"x">>)],
     [amount |-> Crit("int", 0)],
     [date |-> Crit("list", <<D1>>)],
     [date |-> Crit("str", <<"2", "0", "2", "0", "-", "0", "4">>)],
     [bank |-> Crit("str", S_b2), desc |-> Crit("list", <<S_TR>>)]}

\* two criteria in one call
PairCriteria ==
    {[account |-> Crit("str", S_ck), date |-> Crit("str", <<"2", "0", "2", "0">>)],
     [account |-> Crit("str", S_ck), date |-> Crit("int", 6)],
     [bank |-> Crit("str", S_b1), date |-> Crit("int", 3)],
     [bank |-> Crit("str", S_b1), amount |-> Crit("str", <<"w">>)],
     [tags |-> Crit("str", S_food), name |-> Crit("str", <<"p", "i">>)]}

\* kw with negate=b added
WithNegate(kw, b) ==
    [k \in DOMAIN kw \cup {"negate"} |-> IF k = "negate" THEN b ELSE kw[k]]

\* kw without its negate keyword
WithoutNegate(kw) == [k \in DOMAIN kw \ {"negate"} |-> kw[k]]

FilterKwargs ==
    LET base == SingleCriteria \cup CallableCriteria \cup PairCriteria
                    \cup UnknownKeyCriteria \cup BadShapeCriteria
    IN  base \cup {WithNegate(kw, TRUE) : kw \in base}
             \cup {WithNegate(kw, FALSE) : kw \in PairCriteria}

-----------------------------------------------------------------------------
(* The calls on a collection.  The operations are pure: a behaviour is one  *)
(* call on the collection drawn by the initial state, and then the calls   *)
(* made on what that call returned.                                        *)

\* C.filter(**kwargs)
CallFilter ==
    /\ op = "new"
    /\ \E kwargs \in FilterKwargs :
          /\ args' = kwargs
          /\ exc' = FilterError(items, kwargs)
          /\ res' = IF FilterError(items, kwargs) = ""
                    THEN Filter(items, kwargs)
                    ELSE <<>>
    /\ op' = "filter"
    /\ UNCHANGED <<items, other>>

\* R.filter(**kwargs), on the collection R the last filter call returned and
\* with the keywords of that call
CallFilterAgain ==
    /\ op = "filter"
    /\ exc = ""
    /\ exc' = FilterError(res, args)
    /\ res' = IF FilterError(res, args) = "" THEN Filter(res, args) ELSE <<>>
    /\ op' = "refilter"
    /\ UNCHANGED <<items, other, args>>

InitFilter ==
    /\ items \in SeqsUpTo(FilterPool, MaxLen)
    /\ other = <<>>
    /\ op = "new"
    /\ args = <<>>
    /\ res = <<>>
    /\ exc = ""

NextFilter == CallFilter \/ CallFilterAgain

SpecFilter == InitFilter /\ [][NextFilter]_vars

-----------------------------------------------------------------------------
(* Claims about filter.                                                    *)

\* the number of times t occurs in the list xs
Occ(xs, t) == Cardinality({i \in DOMAIN xs : xs[i] = t})

Range(xs) == {xs[i] : i \in DOMAIN xs}

\* kw with the opposite negate flag
Opposite(kw) == WithNegate(kw, ~Negate(kw))

\* C1: for a single criterion of a non-callable shape, filter(crit) and
\* filter(crit, negate=True) partition the collection: every transaction is
\* in exactly one of the two results.  Stated on the collections of two or
\* more transactions, the ones filter does not return whole.
C1_NegationPartition ==
    (/\ op = "filter"
     /\ exc = ""
     /\ Len(items) >= 2
     /\ WithoutNegate(args) \in SingleCriteria)
    => \A t \in Range(items) :
           Occ(res, t) + Occ(Filter(items, Opposite(args)), t) = Occ(items, t)

\* C2 as claimed: filtering the result of a filter call again, with the same
\* keywords, returns the same list, whatever the keywords are.
C2_FilterIdempotentAnyCriteria ==
    op = "refilter" => res = Filter(items, args)

\* the keywords name the n most recent days and negate them
NegatedRecentDays(kw) ==
    /\ Negate(kw)
    /\ "date" \in DOMAIN kw
    /\ kw["date"].shape = "int"

\* C2 as amended: filtering the result of a filter call again, with the same
\* keywords, returns the same list, unless the keywords hold an integer date
\* (the n most recent days) together with negate=True.
C2_FilterIdempotent ==
    (op = "refilter" /\ ~NegatedRecentDays(args)) => res = Filter(items, args)

\* C2 witness: a second filter call, keywords that do not negate an integer
\* date, on a result of two or more transactions that the first
\* call had narrowed down.
C2_Witness ==
    /\ op = "refilter"
    /\ ~NegatedRecentDays(args)
    /\ "date" \in DOMAIN args
    /\ args["date"].shape = "int"
    /\ Len(res) >= 2
    /\ Len(res) < Len(items)

\* the eight criteria of filter
CriterionKeys ==
    {"bank", "account", "tags", "name", "desc", "note", "amount", "date"}

\* C12: filter called with a keyword that is none of the eight criteria nor
\* negate raises an error, whatever the size of the collection.
C12_UnknownKeywordRaises ==
    (/\ op = "filter"
     /\ \E k \in DOMAIN args : k \notin CriterionKeys \cup {"negate"})
    => exc # ""

\* the value c of the criterion `key` is neither of a shape the spec names
\* for the field nor a callable
Unrecognised(key, c) ==
    \/ c.shape \notin Recognised(key) \cup {"fn"}
    \/ /\ key = "amount"
       /\ c.shape = "str"
       /\ Lower(c.v) \notin DepositTokens \cup WithdrawalTokens
    \/ key = "date" /\ c.shape = "str" /\ BadDateStr(c.v)

\* C15: on a collection of two or more transactions, filter raises an error
\* when a criterion value is neither of a recognised shape nor a callable.
C15_UnrecognisedValueRaises ==
    (/\ op = "filter"
     /\ Len(items) >= 2
     /\ DOMAIN args \subseteq CriterionKeys \cup {"negate"}
     /\ \E k \in DOMAIN args \ {"negate"} : Unrecognised(k, args[k]))
    => exc # ""

\* C16: filter on a collection of 0 or 1 transactions returns the same
\* transactions, whatever the criteria of allowed keywords are.
C16_SmallCollectionPassesThrough ==
    (op = "filter" /\ Len(items) < 2 /\ DOMAIN args \subseteq ALLOWED_KEYS)
    => exc = "" /\ res = items

\* C16 witness: a call on one transaction that the criterion, a deposit
\* token, does not match, and that is returned all the same.
C16_Witness ==
    /\ op = "filter"
    /\ Len(items) = 1
    /\ DOMAIN args = {"amount"}
    /\ args["amount"].shape = "str"
    /\ Lower(args["amount"].v) \in DepositTokens
    /\ items[1].amount < 0
    /\ res = items

\* the keep decision of one criterion on its own, before negation
Decides(key, t, c, most_recent_date) ==
    ~Skip(key, t, c, FALSE, most_recent_date)

\* every criterion of kw is one of the eight, of a recognised shape, and no
\* callable
NonPredicate(kw) ==
    /\ DOMAIN kw \subseteq CriterionKeys \cup {"negate"}
    /\ \A k \in DOMAIN kw \ {"negate"} :
           kw[k].shape # "fn" /\ ~Unrecognised(k, kw[k])

\* C17: on two or more transactions and for non-predicate criteria, filter
\* returns exactly the transactions for which every criterion decides keep,
\* each decision flipped when negate is true, in their original order.
C17_ConjunctionOfDecisions ==
    (op = "filter" /\ Len(items) >= 2 /\ NonPredicate(args))
    => /\ exc = ""
       /\ LET M == MaxDate(dates(items))
               all(t) == \A k \in DOMAIN args \ {"negate"} :
                            Decides(k, t, args[k], M) # Negate(args)
           IN  res = SelectSeq(items, all)

\* the one criterion of the call is an amount token
AmountTokenCall ==
    /\ op = "filter"
    /\ Len(items) >= 2
    /\ DOMAIN args \ {"negate"} = {"amount"}
    /\ args["amount"].shape = "str"
    /\ Lower(args["amount"].v) \in DepositTokens \cup WithdrawalTokens

\* C18: filter(amount=tok) keeps exactly the transactions with amount > 0 for
\* a deposit token and those with amount < 0 for a withdrawal token, in any
\* letter case, and with negate=True exactly the others.
C18_AmountTokens ==
    AmountTokenCall
    => /\ exc = ""
       /\ LET deposit == Lower(args["amount"].v) \in DepositTokens
               match(t) == IF deposit THEN t.amount > 0 ELSE t.amount < 0
               kept(t) == IF Negate(args) THEN ~match(t) ELSE match(t)
           IN  res = SelectSeq(items, kept)

\* C18 witness: a negated token with a capital letter, on a collection with
\* a zero amount, a deposit and a withdrawal; the zero amount is kept.
C18_Witness ==
    /\ AmountTokenCall
    /\ Negate(args)
    /\ args["amount"].v # Lower(args["amount"].v)
    /\ \E i, j, k \in DOMAIN items :
          items[i].amount = 0 /\ items[j].amount > 0 /\ items[k].amount < 0
    /\ \E i \in DOMAIN res : res[i].amount = 0
    /\ Len(res) = 2

\* the first day a partial date string covers, and the last
FirstDayOf(s) ==
    LET sd == ParseDateStr(s)
    IN  Date(sd[1], IF Len(sd) >= 2 THEN sd[2] ELSE 1,
             IF Len(sd) >= 3 THEN sd[3] ELSE 1)

LastDayOf(s) ==
    LET sd == ParseDateStr(s)
        m == IF Len(sd) >= 2 THEN sd[2] ELSE 12
    IN  Date(sd[1], m, IF Len(sd) >= 3 THEN sd[3] ELSE MonthLen(sd[1], m))

\* C19: filter(date=(lo, hi)) keeps exactly the transactions dated from the
\* first day lo covers to the last day hi covers, the last day of February
\* being the 29th in a leap year.
C19_DateRange ==
    (/\ op = "filter"
     /\ Len(items) >= 2
     /\ DOMAIN args = {"date"}
     /\ args["date"].shape = "tuple")
    => LET lo == FirstDayOf(args["date"].v[1])
           hi == LastDayOf(args["date"].v[2])
           in(t) == ToOrdinal(lo) <= ToOrdinal(t.date)
                    /\ ToOrdinal(t.date) <= ToOrdinal(hi)
       IN  res = SelectSeq(items, in)

\* the one criterion of the call is an integer date, not negated
RecentDaysCall ==
    /\ op = "filter"
    /\ Len(items) >= 2
    /\ DOMAIN args = {"date"}
    /\ args["date"].shape = "int"

\* the largest ordinal of a date of the collection
LatestOrdinal(its) ==
    CHOOSE n \in {ToOrdinal(its[i].date) : i \in DOMAIN its} :
        \A i \in DOMAIN its : ToOrdinal(its[i].date) <= n

\* C20: filter(date=n) on two or more transactions keeps exactly the
\* transactions dated at most n days before the latest date M of the
\* collection; a transaction dated M is kept when n >= 0.
C20_RecentDays ==
    RecentDaysCall
    => /\ exc = ""
       /\ LET recent(t) ==
                   LatestOrdinal(items) - ToOrdinal(t.date) <= args["date"].v
           IN  res = SelectSeq(items, recent)
       /\ args["date"].v >= 0
          => \E i \in DOMAIN res :
                 ToOrdinal(res[i].date) = LatestOrdinal(items)

\* C20 witness: a call that keeps a transaction n days old exactly, and
\* drops an older one.
C20_Witness ==
    /\ RecentDaysCall
    /\ \E i \in DOMAIN res :
          LatestOrdinal(items) - ToOrdinal(res[i].date) = args["date"].v
    /\ Len(res) < Len(items)

-----------------------------------------------------------------------------
(* Transactions.sort and Transactions.merge.                               *)

\* x[key] of the sort's key function, for the keys date, amount and balance
KeyOf(t, key) == IF key = "date" THEN ToOrdinal(t.date) ELSE t[key]

\* a sort that is not stable: x goes in front of the elements it ties with
SortedInsertBeforeTies(sorted, x, key, reverse) ==
    LET before == {i \in DOMAIN sorted :
                      IF reverse THEN KeyOf(sorted[i], key) > KeyOf(x, key)
                                 ELSE KeyOf(sorted[i], key) < KeyOf(x, key)}
        n == Cardinality(before)
    IN  SubSeq(sorted, 1, n) \o <<x>> \o SubSeq(sorted, n + 1, Len(sorted))

\* sorted() is stable: x goes behind every element that does not sort after it
SortedInsert(sorted, x, key, reverse) ==
    LET before == {i \in DOMAIN sorted :
                      IF reverse THEN KeyOf(sorted[i], key) >= KeyOf(x, key)
                                 ELSE KeyOf(sorted[i], key) <= KeyOf(x, key)}
        n == Cardinality(before)
    IN  SubSeq(sorted, 1, n) \o <<x>> \o SubSeq(sorted, n + 1, Len(sorted))

RECURSIVE SortedPrefix(_, _, _, _)
SortedPrefix(its, n, key, reverse) ==
    IF n = 0 THEN <<>>
    ELSE SortedInsert(SortedPrefix(its, n - 1, key, reverse), its[n], key, reverse)

\* Transactions.sort(key, reverse).items
Sort(its, key, reverse) == SortedPrefix(its, Len(its), key, reverse)

\* the concatenation of the lists of a list of lists
RECURSIVE Flatten(_)
Flatten(ls) == IF ls = <<>> THEN <<>> ELSE Head(ls) \o Flatten(Tail(ls))

\* merged.index(ct), when ct is in merged
IndexOf(merged, ct) ==
    CHOOSE i \in DOMAIN merged :
        TxEq(merged[i], ct) /\ \A j \in 1..(i - 1) : ~TxEq(merged[j], ct)

\* the inner loop without its membership test: every transaction is appended
MergeStepNoDedup(merged, ct) == Append(merged, ct)

\* the inner loop taking name, note and tags from the incoming duplicate
\* whether or not they are empty
MergeStepOverwrite(merged, ct) ==
    IF ~\E i \in DOMAIN merged : TxEq(merged[i], ct)
    THEN Append(merged, ct)
    ELSE LET di == IndexOf(merged, ct)
         IN  [merged EXCEPT ![di] = [@ EXCEPT !.name = ct.name,
                                              !.note = ct.note,
                                              !.tags = ct.tags]]

\* one pass of the inner loop of merge, for the transaction ct
MergeStep(merged, ct) ==
    IF ~\E i \in DOMAIN merged : TxEq(merged[i], ct)
    THEN Append(merged, ct)
    ELSE LET di == IndexOf(merged, ct)
             dc == merged[di]
             d1 == IF is_named(ct) \/ ~is_named(dc)
                   THEN [dc EXCEPT !.name = ct.name] ELSE dc
             d2 == IF has_note(ct) \/ ~has_note(d1)
                   THEN [d1 EXCEPT !.note = ct.note] ELSE d1
             d3 == IF is_categorized(ct) \/ ~is_categorized(d2)
                   THEN [d2 EXCEPT !.tags = ct.tags] ELSE d2
         IN  [merged EXCEPT ![di] = d3]

\* `merged` after the first n transactions of the inputs, in processing order
RECURSIVE MergedAfter(_, _)
MergedAfter(ts, n) ==
    IF n = 0 THEN <<>> ELSE MergeStep(MergedAfter(ts, n - 1), ts[n])

\* Transactions.merge(*arglist).items
Merge(arglist) ==
    LET ts == Flatten(arglist)
    IN  Sort(MergedAfter(ts, Len(ts)), "date", FALSE)

\* the collections merge is called on: three identities (two of them on one
\* date, the third on an earlier date and later in the pool), the first with
\* its name, note and tags absent, present, and present in part
M1 == [T1 EXCEPT !.name = None, !.note = None, !.tags = <<>>]
M2 == [T1 EXCEPT !.name = Some(S_Sub), !.note = Some(<<>>), !.tags = <<S_subs>>]
M3 == [T2 EXCEPT !.date = D1]

MergePool == {M1, T1, M2, M3, T3}

\* Transactions.merge(*arglist), each argument being one of the two collections
CallMerge ==
    /\ op = "new"
    /\ \E arglist \in SeqsUpTo({items, other}, MaxArgs) \ {<<>>} :
          /\ args' = arglist
          /\ res' = Merge(arglist)
    /\ op' = "merge"
    /\ exc' = ""
    /\ UNCHANGED <<items, other>>

\* a further merge, of what the last merge returned with a collection
CallMergeAgain ==
    /\ op = "merge"
    /\ \E arglist \in {<<res, other>>, <<other, res>>} :
          /\ args' = arglist
          /\ res' = Merge(arglist)
    /\ op' = "remerge"
    /\ UNCHANGED <<items, other, exc>>

InitMerge ==
    /\ items \in SeqsUpTo(MergePool, MaxMergeLen)
    /\ other \in SeqsUpTo(MergePool, MaxOtherLen)
    /\ op = "new"
    /\ args = <<>>
    /\ res = <<>>
    /\ exc = ""

NextMerge == CallMerge \/ CallMergeAgain

SpecMerge == InitMerge /\ [][NextMerge]_vars

-----------------------------------------------------------------------------
(* Claims about merge.                                                     *)

\* the identity of a transaction, for deduplication
Identity(t) == <<t.date, t.bank, t.account, t.desc, t.amount, t.balance>>

NoSharedIdentity(xs) ==
    \A i, j \in DOMAIN xs : i # j => Identity(xs[i]) # Identity(xs[j])

Merged == op \in {"merge", "remerge"}

\* C3 as claimed: merge(C, C) is C.sort(), for any collection C.
C3_MergeSelfIsSortAnyCollection ==
    (op = "merge" /\ args = <<items, items>>) => res = Sort(items, "date", FALSE)

\* C3 as amended: merge(C, C) is C.sort(), the same transactions in the same
\* order, for any collection C no two transactions of which share an identity.
C3_MergeSelfIsSort ==
    (op = "merge" /\ args = <<items, items>> /\ NoSharedIdentity(items))
    => res = Sort(items, "date", FALSE)

\* C3 witness: merge(C, C) of two or more transactions of distinct
\* identities that were not in date order.
C3_Witness ==
    /\ op = "merge"
    /\ args = <<items, items>>
    /\ NoSharedIdentity(items)
    /\ Len(items) >= 2
    /\ res # items

\* C4: the result of merge holds exactly one transaction for every identity
\* of its inputs and none of another identity; name, note and tags are no
\* part of the identity.
C4_OnePerIdentity ==
    Merged =>
        LET ins == Flatten(args)
        IN  /\ \A i \in DOMAIN ins :
                  Cardinality({j \in DOMAIN res :
                                  Identity(res[j]) = Identity(ins[i])}) = 1
            /\ \A j \in DOMAIN res :
                  \E i \in DOMAIN ins : Identity(ins[i]) = Identity(res[j])
            /\ NoSharedIdentity(res)

\* C4 witness: a further merge of a merge result, two inputs of which
\* differ in name only and have become one transaction.
C4_Witness ==
    /\ op = "remerge"
    /\ LET ins == Flatten(args)
       IN  /\ Len(res) < Len(ins)
           /\ \E i, k \in DOMAIN ins :
                 /\ Identity(ins[i]) = Identity(ins[k])
                 /\ ins[i].name # ins[k].name

\* a name or a note that is neither None nor the empty string
Present(v) == v # None /\ v # Some(<<>>)

\* the positions of the inputs that hold the identity of r
Occurrences(ins, r) == {i \in DOMAIN ins : Identity(ins[i]) = Identity(r)}

MaxIdx(S) == CHOOSE i \in S : \A k \in S : k <= i
MinIdx(S) == CHOOSE i \in S : \A k \in S : i <= k

\* C5: for name, note and tags independently, the transaction merge keeps
\* for an identity carries the value of the last occurrence, in processing
\* order, whose value is not empty.
C5_LastNonEmptyWins ==
    Merged =>
        LET ins == Flatten(args)
        IN  \A j \in DOMAIN res :
                LET occ == Occurrences(ins, res[j])
                    named == {i \in occ : Present(ins[i].name)}
                    noted == {i \in occ : Present(ins[i].note)}
                    tagged == {i \in occ : ins[i].tags # <<>>}
                IN  /\ named # {} => res[j].name = ins[MaxIdx(named)].name
                    /\ noted # {} => res[j].note = ins[MaxIdx(noted)].note
                    /\ tagged # {} => res[j].tags = ins[MaxIdx(tagged)].tags

\* C5 witness: an identity that occurs with a name and a note, and later with
\* another name and an empty note.
C5_Witness ==
    /\ Merged
    /\ LET ins == Flatten(args)
       IN  \E i, k \in DOMAIN ins :
              /\ i < k
              /\ Identity(ins[i]) = Identity(ins[k])
              /\ Present(ins[i].name) /\ Present(ins[k].name)
              /\ ins[i].name # ins[k].name
              /\ Present(ins[i].note) /\ ~Present(ins[k].note)
              /\ \A l \in DOMAIN ins : l > k => Identity(ins[l]) # Identity(ins[k])

\* C6: the result of merge is in non-decreasing date order, and transactions
\* of one date are in the order in which their identities first occurred in
\* the inputs.
C6_DateOrderStable ==
    Merged =>
        LET ins == Flatten(args)
        IN  \A a, b \in DOMAIN res :
                a < b =>
                    /\ DateLE(res[a].date, res[b].date)
                    /\ res[a].date = res[b].date =>
                           MinIdx(Occurrences(ins, res[a]))
                               < MinIdx(Occurrences(ins, res[b]))

\* C6 witness: a merge whose inputs were out of date order and whose result
\* holds two transactions of one date.
C6_Witness ==
    /\ Merged
    /\ LET ins == Flatten(args)
       IN  /\ \E i, k \in DOMAIN ins : i < k /\ DateLT(ins[k].date, ins[i].date)
           /\ \E a, b \in DOMAIN res : a < b /\ res[a].date = res[b].date

-----------------------------------------------------------------------------
(* Transactions.group.                                                     *)

\* the characters of the strings, in code point order
Chars ==
    <<"+", "-", "/", "0", "1", "2", "3", "4", "5", "6", "7", "8", "9",
      "A", "B", "C", "D", "E", "F", "G", "H", "I", "J", "K", "L", "M",
      "N", "O", "P", "Q", "R", "S", "T", "U", "V", "W", "X", "Y", "Z",
      "a", "b", "c", "d", "e", "f", "g", "h", "i", "j", "k", "l", "m",
      "n", "o", "p", "q", "r", "s", "t", "u", "v", "w", "x", "y", "z">>

CharCode(c) == CHOOSE i \in DOMAIN Chars : Chars[i] = c

\* a < b for two strings
StrLT(a, b) ==
    \/ Len(a) < Len(b) /\ \A i \in DOMAIN a : a[i] = b[i]
    \/ \E k \in DOMAIN a \cap DOMAIN b :
          /\ \A i \in 1..(k - 1) : a[i] = b[i]
          /\ CharCode(a[k]) < CharCode(b[k])

\* sorted(tags), of a list of strings
RECURSIVE SortedTags(_)
SortedTags(tags) ==
    IF tags = <<>> THEN <<>>
    ELSE LET rest == SortedTags(SubSeq(tags, 1, Len(tags) - 1))
             x == tags[Len(tags)]
             n == Cardinality({i \in DOMAIN rest : ~StrLT(x, rest[i])})
         IN  SubSeq(rest, 1, n) \o <<x>> \o SubSeq(rest, n + 1, Len(rest))

\* Transactions.banks(), accounts(bank), descs() and names(), as sets
banks(its) == {its[i].bank : i \in DOMAIN its}

accounts(its, bank) ==
    {its[i].account : i \in {j \in DOMAIN its :
        bank = <<>> \/ Lower(its[j].bank) = Lower(bank)}}

descs(its) == {its[i].desc : i \in DOMAIN its}

names(its) == {its[i].name[1] : i \in {j \in DOMAIN its : its[j].name # None}}

Entry(key, its) == [key |-> key, items |-> its]

\* list.remove(t): without the first element equal to t
Remove(its, t) ==
    LET i == IndexOf(its, t)
    IN  SubSeq(its, 1, i - 1) \o SubSeq(its, i + 1, Len(its))

RECURSIVE RemoveAll(_, _)
RemoveAll(its, selected) ==
    IF selected = <<>> THEN its
    ELSE RemoveAll(Remove(its, Head(selected)), Tail(selected))

DateModes == {"date-daily", "date-weekly", "date-monthly", "date-yearly"}

\* freq[by][1]: where the rrule starts
DtStart(by, first) ==
    CASE by = "date-daily" -> first
      [] by = "date-monthly" -> [first EXCEPT !.day = 1]
      [] by = "date-weekly" -> first
      [] by = "date-yearly" -> [first EXCEPT !.month = 1, !.day = 1]

\* the rrule's upper end, had the step not been added to the last date
UntilLastDate(by, last) == last

\* items[-1].date + freq[by][2]: the inclusive upper end of the rrule
Until(by, last) ==
    CASE by = "date-daily" -> AddDays(last, 1)
      [] by = "date-monthly" -> AddMonths(last, 1)
      [] by = "date-weekly" -> AddDays(last, 7)
      [] by = "date-yearly" -> AddMonths(last, 12)

\* Occurrence k (from 0) of rrule(freq, dtstart, interval).  With no BYxxx
\* rule given the day of the week, of the month or of the year is that of
\* dtstart, so wkst moves no occurrence; dtstart is on day 1 in the monthly
\* and yearly modes, a day every month has.
Occurrence(by, dtstart, interval, k) ==
    CASE by = "date-daily" -> AddDays(dtstart, interval * k)
      [] by = "date-weekly" -> AddDays(dtstart, 7 * interval * k)
      [] by = "date-monthly" -> AddMonths(dtstart, interval * k)
      [] by = "date-yearly" -> AddMonths(dtstart, 12 * interval * k)

\* list(rrule(...)): the occurrences up to `until`, inclusive
RECURSIVE DateSteps(_, _, _, _, _)
DateSteps(by, dtstart, interval, until, k) ==
    IF DateLE(Occurrence(by, dtstart, interval, k), until)
    THEN <<Occurrence(by, dtstart, interval, k)>>
             \o DateSteps(by, dtstart, interval, until, k + 1)
    ELSE <<>>

\* the loop over dateranges with the upper end of a range counted in
RECURSIVE DateBucketsUpperInclusive(_, _, _, _)
DateBucketsUpperInclusive(datesteps, k, remaining, include_empty) ==
    IF k >= Len(datesteps) THEN {}
    ELSE LET lower == datesteps[k]
             upper == datesteps[k + 1]
             in(t) == DateLE(lower, t.date) /\ DateLE(t.date, upper)
             selected_items == SelectSeq(remaining, in)
         IN  IF ~include_empty /\ selected_items = <<>>
             THEN DateBucketsUpperInclusive(datesteps, k + 1, remaining,
                                            include_empty)
             ELSE {Entry(<<lower, upper>>, selected_items)}
                  \cup DateBucketsUpperInclusive(
                           datesteps, k + 1,
                           RemoveAll(remaining, selected_items), include_empty)

\* the loop over dateranges from range k on: `remaining` is the working list
RECURSIVE DateBuckets(_, _, _, _)
DateBuckets(datesteps, k, remaining, include_empty) ==
    IF k >= Len(datesteps) THEN {}
    ELSE LET lower == datesteps[k]
             upper == datesteps[k + 1]
             in(t) == DateLE(lower, t.date) /\ DateLT(t.date, upper)
             selected_items == SelectSeq(remaining, in)
         IN  IF ~include_empty /\ selected_items = <<>>
             THEN DateBuckets(datesteps, k + 1, remaining, include_empty)
             ELSE {Entry(<<lower, upper>>, selected_items)}
                  \cup DateBuckets(datesteps, k + 1,
                                   RemoveAll(remaining, selected_items),
                                   include_empty)

\* the key of a transaction in the tags mode: None stands for Python's None
TagsKey(t) == IF t.tags # <<>> THEN Some(SortedTags(t.tags)) ELSE None

\* math.floor(x) and math.ceil(x) of an amount of x cents, in cents
Floor(x) == (x \div 100) * 100
Ceil(x) == -Floor(-x)

\* the loop over numpy.arange(start, stop, drange) from its element k on, for
\* the field `key` (amount or balance): `remaining` is the working list.
\* drange is a whole number of dollars, so every bound is exact in floating
\* point and round(.., 2) changes none.
RECURSIVE RangeBuckets(_, _, _, _, _, _, _)
RangeBuckets(key, start, stop, drange, k, remaining, include_empty) ==
    IF start + k * drange >= stop THEN {}
    ELSE LET lower == start + k * drange
             upper == lower + drange
             in(t) == t[key] >= lower /\ t[key] < upper
             selected_items == SelectSeq(remaining, in)
         IN  IF ~include_empty /\ selected_items = <<>>
             THEN RangeBuckets(key, start, stop, drange, k + 1, remaining,
                               include_empty)
             ELSE {Entry(<<lower, upper>>, selected_items)}
                  \cup RangeBuckets(key, start, stop, drange, k + 1,
                                    RemoveAll(remaining, selected_items),
                                    include_empty)

\* the `by` values the calls are made with that are none of the ten modes,
\* and those of them that start with 'date-'
UnknownModes == {"account", "bank", "date-hourly"}
DatePrefixed == DateModes \cup {"date-hourly"}

\* the exception group raises, "" when it raises none: freq[by] of a `by`
\* that starts with 'date-' and is no key of freq
GroupError(its, by) ==
    IF Len(its) >= 1 /\ by \in DatePrefixed /\ by \notin DateModes
    THEN "KeyError" ELSE ""

\* Transactions.group(by, drange, include_empty, interval), for the calls that
\* raise nothing; amounts, balances and drange are in cents
Group(its, by, drange, include_empty, interval) ==
    IF Len(its) < 1 THEN {}
    ELSE
    LET sorted == IF by \in {"amount", "balance"} THEN Sort(its, by, FALSE)
                  ELSE Sort(its, "date", FALSE)
    IN  CASE by = "bank-account" ->
                {Entry(<<bank, account>>,
                       LET in(t) == t.bank = bank /\ t.account = account
                       IN  SelectSeq(sorted, in)) :
                    <<bank, account>> \in
                        UNION {{<<b, a>> : a \in accounts(its, b)} : b \in banks(its)}}
          [] by \in DateModes ->
                DateBuckets(
                    DateSteps(by, DtStart(by, sorted[1].date), interval,
                              Until(by, sorted[Len(sorted)].date), 0),
                    1, sorted, include_empty)
          [] by = "desc" ->
                {Entry(desc, LET in(t) == t.desc = desc IN SelectSeq(sorted, in)) :
                    desc \in descs(its)}
          [] by = "name" ->
                {Entry(Some(name),
                       LET in(t) == t.name = Some(name) IN SelectSeq(sorted, in)) :
                    name \in names(its)}
                \cup IF include_empty
                     THEN {Entry(None, LET in(t) == ~is_named(t)
                                       IN  SelectSeq(sorted, in))}
                     ELSE {}
          [] by = "tags" ->
                LET grouped == IF include_empty THEN sorted
                               ELSE SelectSeq(sorted, is_categorized)
                IN  {Entry(k, LET in(t) == TagsKey(t) = k
                              IN  SelectSeq(grouped, in)) :
                        k \in {TagsKey(grouped[i]) : i \in DOMAIN grouped}}
          [] by \in {"amount", "balance"} ->
                RangeBuckets(by, Floor(sorted[1][by]),
                             Ceil(sorted[Len(sorted)][by]) + drange + 200,
                             drange, 0, sorted, include_empty)
          [] OTHER -> {}

\* the collections group is called on: five dates from Monday 2019-12-30 to
\* Sunday 2020-03-01, over two years and four months, January twice
G1 == [T1 EXCEPT !.date = Date(2019, 12, 30)]
G2 == [T2 EXCEPT !.date = Date(2020, 1, 1)]
G3 == [T5 EXCEPT !.date = Date(2020, 1, 31)]
G4 == [T3 EXCEPT !.date = Date(2020, 2, 29), !.tags = <<S_pizza, S_food>>]
G5 == [T4 EXCEPT !.date = Date(2020, 3, 1)]

GroupPool == {G1, G2, G3, G4, G5}

CategoricalModes == {"bank-account", "desc", "name", "tags"}

\* C.group(by, include_empty=include_empty, interval=interval)
\* the default of drange, and the bin widths the calls are made with
DefaultDrange == 10000
DRanges == {5000, DefaultDrange}

\* the arguments of the calls: interval varies in the modes that read it and
\* drange in the modes that read it
GroupArgs ==
    [by : CategoricalModes \cup DateModes \cup UnknownModes,
     drange : {DefaultDrange}, include_empty : BOOLEAN,
     interval : 1..MaxInterval]
    \cup [by : {"amount", "balance"}, drange : DRanges,
          include_empty : BOOLEAN, interval : {1}]

CallGroup ==
    /\ op = "new"
    /\ \E a \in GroupArgs :
          /\ args' = a
          /\ exc' = GroupError(items, a.by)
          /\ res' = IF GroupError(items, a.by) = ""
                    THEN Group(items, a.by, a.drange, a.include_empty,
                               a.interval)
                    ELSE {}
    /\ op' = "group"
    /\ UNCHANGED <<items, other>>

InitGroup ==
    /\ items \in SeqsUpTo(GroupPool, MaxLen)
    /\ other = <<>>
    /\ op = "new"
    /\ args = <<>>
    /\ res = <<>>
    /\ exc = ""

NextGroup == CallGroup

SpecGroup == InitGroup /\ [][NextGroup]_vars

-----------------------------------------------------------------------------
(* Claims about group.                                                     *)

\* the sum of the sizes of the buckets of a mapping
RECURSIVE BucketTotal(_)
BucketTotal(g) ==
    IF g = {} THEN 0
    ELSE LET e == CHOOSE x \in g : TRUE
         IN  Len(e.items) + BucketTotal(g \ {e})

\* the number of times t occurs in the buckets of a mapping
RECURSIVE BucketOcc(_, _)
BucketOcc(g, t) ==
    IF g = {} THEN 0
    ELSE LET e == CHOOSE x \in g : TRUE
         IN  Occ(e.items, t) + BucketOcc(g \ {e}, t)

\* C7: in a categorical mode with include_empty=True the bucket sizes sum to
\* the size of the collection, every transaction being in exactly one bucket.
C7_CategoricalCoverage ==
    (op = "group" /\ args.by \in CategoricalModes /\ args.include_empty)
    => /\ BucketTotal(res) = Len(items)
       /\ \A t \in Range(items) : BucketOcc(res, t) = Occ(items, t)

\* C8: in every date mode and for every interval >= 1 each transaction is in
\* some bucket, and the bucket sizes sum to the size of the collection.
C8_DateCoverage ==
    (op = "group" /\ args.by \in DateModes)
    => /\ \A t \in Range(items) : \E e \in res : InList(t, e.items)
       /\ BucketTotal(res) = Len(items)

\* C9: every date bucket starts on a calendar boundary: a week on a Sunday, a
\* month on day 1, a year on January 1.
C9_CalendarAligned ==
    (op = "group" /\ args.by \in DateModes)
    => \A e \in res :
           /\ args.by = "date-weekly" => Weekday(e.key[1]) = 6
           /\ args.by = "date-monthly" => e.key[1].day = 1
           /\ args.by = "date-yearly" =>
                  e.key[1].month = 1 /\ e.key[1].day = 1

\* the calendar months (year, month) in which the collection has a transaction
MonthsOf(its) == {<<its[i].date.year, its[i].date.month>> : i \in DOMAIN its}

FirstOfMonth(ym) == Date(ym[1], ym[2], 1)

FirstOfNextMonth(ym) ==
    IF ym[2] = 12 THEN Date(ym[1] + 1, 1, 1) ELSE Date(ym[1], ym[2] + 1, 1)

\* C10: with interval=1 and include_empty=False the monthly mode returns one
\* bucket for every calendar month that holds a transaction, keyed (first day
\* of the month, first day of the next month), and the bucket holds exactly
\* the transactions of that month.
C10_MonthlyBuckets ==
    (/\ op = "group"
     /\ args.by = "date-monthly"
     /\ args.interval = 1
     /\ ~args.include_empty)
    => /\ {e.key : e \in res} =
              {<<FirstOfMonth(ym), FirstOfNextMonth(ym)>> : ym \in MonthsOf(items)}
       /\ Cardinality(res) = Cardinality(MonthsOf(items))
       /\ \A e \in res : \A t \in Range(items) :
              Occ(e.items, t) =
                  IF /\ t.date.year = e.key[1].year
                     /\ t.date.month = e.key[1].month
                  THEN Occ(items, t) ELSE 0

\* C10 witness: a monthly grouping of transactions of two or more months with
\* an empty month between them, and two transactions in one month.
C10_Witness ==
    /\ op = "group"
    /\ args.by = "date-monthly"
    /\ args.interval = 1
    /\ ~args.include_empty
    /\ Cardinality(res) >= 2
    /\ \E e \in res : Len(e.items) >= 2
    /\ \E e \in res :
          /\ \A f \in res : f.key[1] # e.key[2]
          /\ \E f \in res : DateLT(e.key[2], f.key[1])

\* C11: with include_empty=False no bucket of the mapping group returns is
\* empty, in every mode and for every collection.
C11_NoEmptyBucket ==
    (op = "group" /\ exc = "" /\ ~args.include_empty)
    => \A e \in res : e.items # <<>>

\* the ten modes of group
GroupModes == CategoricalModes \cup DateModes \cup {"amount", "balance"}

\* C13: group called with a `by` that is none of the ten modes raises an
\* error and returns no mapping, for every collection.
C13_UnknownModeRaises ==
    (op = "group" /\ args.by \notin GroupModes) => exc # ""

\* the value group buckets the transaction t by: the ordinal of its date in
\* the date modes, its amount or its balance
BucketValue(by, t) == IF by \in DateModes THEN ToOrdinal(t.date) ELSE t[by]

\* the bound b of a bucket key, as a value of that kind
BoundValue(by, b) == IF by \in DateModes THEN ToOrdinal(b) ELSE b

\* t lies in the interval or bin [low, high) of the bucket key
InBucket(by, key, t) ==
    /\ BoundValue(by, key[1]) <= BucketValue(by, t)
    /\ BucketValue(by, t) < BoundValue(by, key[2])

\* the calls C29 is about
RangeGroupCall ==
    /\ op = "group"
    /\ exc = ""
    /\ args.by \in DateModes \cup {"amount", "balance"}

\* C29: in the date modes and in the amount and balance modes every bucket
\* holds exactly the transactions of the collection whose date or value lies
\* in the interval [low, high) of its key, in sorted order; the intervals of
\* two buckets do not overlap, and no transaction is in two buckets.
C29_IndependentAssignment ==
    RangeGroupCall
    => LET sorted == Sort(items,
                          IF args.by \in DateModes THEN "date" ELSE args.by,
                          FALSE)
       IN  /\ \A e \in res :
                  e.items = LET in(t) == InBucket(args.by, e.key, t)
                            IN  SelectSeq(sorted, in)
           /\ \A e, f \in res :
                  e # f => \/ BoundValue(args.by, e.key[2])
                                 <= BoundValue(args.by, f.key[1])
                           \/ BoundValue(args.by, f.key[2])
                                 <= BoundValue(args.by, e.key[1])
           /\ \A t \in Range(items) : BucketOcc(res, t) <= Occ(items, t)

\* C29 witness: a monthly grouping with a transaction dated on the first day
\* of a month, the day on which one interval ends and the next begins, and
\* with a transaction in the month before.
C29_Witness ==
    /\ RangeGroupCall
    /\ args.by = "date-monthly"
    /\ \E e, f \in res :
          /\ e.key[2] = f.key[1]
          /\ e.items # <<>>
          /\ \E i \in DOMAIN f.items : f.items[i].date = f.key[1]

-----------------------------------------------------------------------------
(* Transactions.mean_freq, median_freq and stdev_freq.  A result is None,   *)
(* or Num(v) for the float v / 10000 (the results are rounded to 4 places), *)
(* or Sqrt(num, den) for the square root of num / den rounded to 4 places.  *)

Num(v) == [kind |-> "num", v |-> v]
Sqrt(num, den) == [kind |-> "sqrt", num |-> num, den |-> den]

Scales == {"daily", "weekly", "monthly", "yearly"}

\* f'date-{scale}', for the four scales
ModeOfScale(scale) ==
    CASE scale = "daily" -> "date-daily"
      [] scale = "weekly" -> "date-weekly"
      [] scale = "monthly" -> "date-monthly"
      [] scale = "yearly" -> "date-yearly"

\* [len(ts) for d, ts in grouped.items()], in ascending order
RECURSIVE Counts(_)
Counts(g) ==
    IF g = {} THEN <<>>
    ELSE LET e == CHOOSE x \in g : \A y \in g : Len(x.items) >= Len(y.items)
         IN  Counts(g \ {e}) \o <<Len(e.items)>>

RECURSIVE SumOf(_)
SumOf(xs) == IF xs = <<>> THEN 0 ELSE Head(xs) + SumOf(Tail(xs))

SumOfSquares(xs) == SumOf([i \in DOMAIN xs |-> xs[i] * xs[i]])

\* round(num / den, 4) in units of 1/10000, halves going to the even digit
Round4(num, den) ==
    LET q == (num * 10000) \div den
        r == (num * 10000) % den
    IN  IF 2 * r < den THEN q
        ELSE IF 2 * r > den THEN q + 1
        ELSE IF q % 2 = 0 THEN q ELSE q + 1

\* statistics.mean, statistics.median and statistics.stdev of a list of
\* counts in ascending order, rounded to 4 places
Mean(xs) == Num(Round4(SumOf(xs), Len(xs)))

Median(xs) ==
    LET n == Len(xs)
    IN  IF n % 2 = 1 THEN Num(10000 * xs[(n + 1) \div 2])
        ELSE Num(5000 * (xs[n \div 2] + xs[(n \div 2) + 1]))

Stdev(xs) ==
    LET n == Len(xs)
    IN  Sqrt(n * SumOfSquares(xs) - SumOf(xs) * SumOf(xs), n * (n - 1))

\* the exception of the scale test, "" when the scale is one of the four
ScaleError(scale) ==
    IF scale \notin Scales THEN "please specify an appropriate time scale"
    ELSE ""

\* the buckets, had the grouping not been asked for the empty ones
FreqGroupsNonEmpty(its, scale) ==
    Group(its, ModeOfScale(scale), DefaultDrange, FALSE, 1)

\* the buckets the frequency statistics are taken over
FreqGroups(its, scale) ==
    Group(its, ModeOfScale(scale), DefaultDrange, TRUE, 1)

\* Transactions.mean_freq(scale): the exception and the result
mean_freq(its, scale) ==
    IF Len(its) < 1 THEN [exc |-> "", res |-> None]
    ELSE IF ScaleError(scale) # "" THEN [exc |-> ScaleError(scale), res |-> None]
    ELSE [exc |-> "", res |-> Mean(Counts(FreqGroups(its, scale)))]

\* Transactions.median_freq(scale)
median_freq(its, scale) ==
    IF Len(its) < 1 THEN [exc |-> "", res |-> None]
    ELSE IF ScaleError(scale) # "" THEN [exc |-> ScaleError(scale), res |-> None]
    ELSE [exc |-> "", res |-> Median(Counts(FreqGroups(its, scale)))]

\* Transactions.stdev_freq(scale)
stdev_freq(its, scale) ==
    IF ScaleError(scale) # "" THEN [exc |-> ScaleError(scale), res |-> None]
    ELSE LET grouped == FreqGroups(its, scale)
         IN  IF Cardinality(grouped) < 1 THEN [exc |-> "", res |-> None]
             ELSE IF Cardinality(grouped) = 1 THEN [exc |-> "", res |-> Num(0)]
             ELSE [exc |-> "", res |-> Stdev(Counts(grouped))]

\* the scales the calls are made with: the four, and two that are none
CallScales == Scales \cup {"hourly", "date-daily"}

CallMeanFreq ==
    /\ op = "new"
    /\ \E scale \in CallScales :
          /\ args' = [scale |-> scale]
          /\ exc' = mean_freq(items, scale).exc
          /\ res' = mean_freq(items, scale).res
    /\ op' = "mean_freq"
    /\ UNCHANGED <<items, other>>

CallMedianFreq ==
    /\ op = "new"
    /\ \E scale \in CallScales :
          /\ args' = [scale |-> scale]
          /\ exc' = median_freq(items, scale).exc
          /\ res' = median_freq(items, scale).res
    /\ op' = "median_freq"
    /\ UNCHANGED <<items, other>>

CallStdevFreq ==
    /\ op = "new"
    /\ \E scale \in CallScales :
          /\ args' = [scale |-> scale]
          /\ exc' = stdev_freq(items, scale).exc
          /\ res' = stdev_freq(items, scale).res
    /\ op' = "stdev_freq"
    /\ UNCHANGED <<items, other>>

-----------------------------------------------------------------------------
(* Transactions.statistics and the amount and balance statistics.  A        *)
(* result in dollars is Cents(v) for the float v / 100; Tie(v) is the mean   *)
(* or median that lies halfway between v and v + 1 cents, which round(.., 2) *)
(* takes to the one or to the other as the binary value of the float falls;  *)
(* StdevOf(xs) is round(statistics.stdev(xs), 2) of the list xs of cents.    *)

Cents(v) == [kind |-> "cents", v |-> v]
Tie(v) == [kind |-> "tie", v |-> v]
StdevOf(xs) == [kind |-> "stdev", data |-> xs]

Abs(x) == IF x < 0 THEN -x ELSE x

\* [t.amount for t in self] or [abs(t.amount) for t in self], key being
\* amount or balance
Values(its, key, absolute_value) ==
    [i \in DOMAIN its |-> IF absolute_value THEN Abs(its[i][key]) ELSE its[i][key]]

\* sorted(xs) of a list of numbers
RECURSIVE SortedNumbers(_)
SortedNumbers(xs) ==
    IF xs = <<>> THEN <<>>
    ELSE LET rest == SortedNumbers(Tail(xs))
             n == Cardinality({i \in DOMAIN rest : rest[i] < Head(xs)})
         IN  SubSeq(rest, 1, n) \o <<Head(xs)>> \o SubSeq(rest, n + 1, Len(rest))

\* round(num / den, 2) of a number of cents num / den
Round2(num, den) ==
    LET q == num \div den
        r == num % den
    IN  IF 2 * r < den THEN Cents(q)
        ELSE IF 2 * r > den THEN Cents(q + 1)
        ELSE Tie(q)

\* max_amount, max_balance
max_of(its, key, absolute_value) ==
    IF Len(its) < 1 THEN None
    ELSE LET xs == SortedNumbers(Values(its, key, absolute_value))
         IN  Cents(xs[Len(xs)])

\* min_amount, min_balance
min_of(its, key, absolute_value) ==
    IF Len(its) < 1 THEN None
    ELSE Cents(SortedNumbers(Values(its, key, absolute_value))[1])

\* mean_amount, mean_balance
mean_of(its, key, absolute_value) ==
    IF Len(its) < 1 THEN None
    ELSE Round2(SumOf(Values(its, key, absolute_value)), Len(its))

\* median_amount, median_balance
median_of(its, key, absolute_value) ==
    IF Len(its) < 1 THEN None
    ELSE LET xs == SortedNumbers(Values(its, key, absolute_value))
             n == Len(xs)
         IN  IF n % 2 = 1 THEN Cents(xs[(n + 1) \div 2])
             ELSE Round2(xs[n \div 2] + xs[(n \div 2) + 1], 2)

\* stdev_amount had it no case for a collection of one transaction
stdev_of_no_singleton(its, key, absolute_value) ==
    IF Len(its) < 1 THEN None
    ELSE StdevOf(Values(its, key, absolute_value))

\* stdev_amount, stdev_balance
stdev_of(its, key, absolute_value) ==
    IF Len(its) < 1 THEN None
    ELSE IF Len(its) = 1 THEN Cents(0)
    ELSE StdevOf(Values(its, key, absolute_value))

\* total_amount, total_balance
total_of(its, key, absolute_value) ==
    IF Len(its) < 1 THEN Cents(0)
    ELSE Cents(SumOf(Values(its, key, absolute_value)))

\* Transactions.statistics(), for a collection on which it raises nothing
statistics(its) ==
    [count |-> Len(its),
     max_abs_amount |-> max_of(its, "amount", TRUE),
     max_abs_balance |-> max_of(its, "balance", TRUE),
     max_amount |-> max_of(its, "amount", FALSE),
     max_balance |-> max_of(its, "balance", FALSE),
     mean_abs_amount |-> mean_of(its, "amount", TRUE),
     mean_abs_balance |-> mean_of(its, "balance", TRUE),
     mean_amount |-> mean_of(its, "amount", FALSE),
     mean_balance |-> mean_of(its, "balance", FALSE),
     mean_freq_daily |-> mean_freq(its, "daily").res,
     mean_freq_monthly |-> mean_freq(its, "monthly").res,
     mean_freq_weekly |-> mean_freq(its, "weekly").res,
     mean_freq_yearly |-> mean_freq(its, "yearly").res,
     median_abs_amount |-> median_of(its, "amount", TRUE),
     median_abs_balance |-> median_of(its, "balance", TRUE),
     median_amount |-> median_of(its, "amount", FALSE),
     median_balance |-> median_of(its, "balance", FALSE),
     median_freq_daily |-> median_freq(its, "daily").res,
     median_freq_monthly |-> median_freq(its, "monthly").res,
     median_freq_weekly |-> median_freq(its, "weekly").res,
     median_freq_yearly |-> median_freq(its, "yearly").res,
     min_abs_amount |-> min_of(its, "amount", TRUE),
     min_abs_balance |-> min_of(its, "balance", TRUE),
     min_amount |-> min_of(its, "amount", FALSE),
     min_balance |-> min_of(its, "balance", FALSE),
     stdev_abs_amount |-> stdev_of(its, "amount", TRUE),
     stdev_abs_balance |-> stdev_of(its, "balance", TRUE),
     stdev_amount |-> stdev_of(its, "amount", FALSE),
     stdev_balance |-> stdev_of(its, "balance", FALSE),
     stdev_freq_daily |-> stdev_freq(its, "daily").res,
     stdev_freq_monthly |-> stdev_freq(its, "monthly").res,
     stdev_freq_weekly |-> stdev_freq(its, "weekly").res,
     stdev_freq_yearly |-> stdev_freq(its, "yearly").res,
     total_abs_amount |-> total_of(its, "amount", TRUE),
     total_abs_balance |-> total_of(its, "balance", TRUE),
     total_amount |-> total_of(its, "amount", FALSE),
     total_balance |-> total_of(its, "balance", FALSE)]

\* C.statistics()
CallStatistics ==
    /\ op = "new"
    /\ args' = <<>>
    /\ exc' = ""
    /\ res' = statistics(items)
    /\ op' = "statistics"
    /\ UNCHANGED <<items, other>>

InitStats ==
    /\ items \in SeqsUpTo(GroupPool, MaxLen)
    /\ other = <<>>
    /\ op = "new"
    /\ args = <<>>
    /\ res = <<>>
    /\ exc = ""

NextStats ==
    CallMeanFreq \/ CallMedianFreq \/ CallStdevFreq \/ CallStatistics

SpecStats == InitStats /\ [][NextStats]_vars

-----------------------------------------------------------------------------
(* Claims about the frequency statistics.                                  *)

\* C14: mean_freq, median_freq and stdev_freq each raise an error when the
\* scale is none of daily, weekly, monthly and yearly, for every collection,
\* the empty one included.
C14_UnknownScaleRaises ==
    (/\ op \in {"mean_freq", "median_freq", "stdev_freq"}
     /\ args.scale \notin Scales)
    => exc # ""

\* the entries of the statistics dictionary, by kind
PositionalEntries ==
    {"max_abs_amount", "max_abs_balance", "max_amount", "max_balance",
     "mean_abs_amount", "mean_abs_balance", "mean_amount", "mean_balance",
     "mean_freq_daily", "mean_freq_monthly", "mean_freq_weekly",
     "mean_freq_yearly",
     "median_abs_amount", "median_abs_balance", "median_amount",
     "median_balance",
     "median_freq_daily", "median_freq_monthly", "median_freq_weekly",
     "median_freq_yearly",
     "min_abs_amount", "min_abs_balance", "min_amount", "min_balance"}

StdevEntries ==
    {"stdev_abs_amount", "stdev_abs_balance", "stdev_amount", "stdev_balance"}

StdevFreqEntries ==
    {"stdev_freq_daily", "stdev_freq_monthly", "stdev_freq_weekly",
     "stdev_freq_yearly"}

TotalEntries ==
    {"total_abs_amount", "total_abs_balance", "total_amount", "total_balance"}

\* C22: statistics raises nothing on degenerate input; on the empty
\* collection count is 0, every max, min, mean, median and stdev entry is
\* null and every total is 0.0; on one transaction every stdev entry is 0.0.
C22_DegenerateStatistics ==
    (op = "statistics" /\ Len(items) < 2)
    => /\ exc = ""
       /\ DOMAIN res = {"count"} \cup PositionalEntries \cup StdevEntries
                           \cup StdevFreqEntries \cup TotalEntries
       /\ res.count = Len(items)
       /\ items = <<>> =>
              /\ \A k \in PositionalEntries \cup StdevEntries
                            \cup StdevFreqEntries : res[k] = None
              /\ \A k \in TotalEntries : res[k] = Cents(0)
       /\ Len(items) = 1 =>
              /\ \A k \in StdevEntries : res[k] = Cents(0)
              /\ \A k \in StdevFreqEntries : res[k] = Num(0)

\* the number of the interval of the scale that holds the date d, counted
\* from the interval that holds the date e (0 for that one): days, weeks of
\* seven days from e on, calendar months, calendar years
IntervalIndex(scale, e, d) ==
    CASE scale = "daily" -> ToOrdinal(d) - ToOrdinal(e)
      [] scale = "weekly" -> (ToOrdinal(d) - ToOrdinal(e)) \div 7
      [] scale = "monthly" -> (12 * d.year + d.month) - (12 * e.year + e.month)
      [] scale = "yearly" -> d.year - e.year

\* the earliest date of a collection
EarliestDate(its) ==
    LET i == CHOOSE x \in DOMAIN its :
                 \A y \in DOMAIN its :
                     ToOrdinal(its[x].date) <= ToOrdinal(its[y].date)
    IN  its[i].date

\* one count per interval, from the one holding the earliest transaction
\* through the one holding the latest, zero where there is no transaction
IntervalCounts(its, scale) ==
    LET e == EarliestDate(its)
        last == CHOOSE n \in {IntervalIndex(scale, e, its[i].date) : i \in DOMAIN its} :
                    \A i \in DOMAIN its : IntervalIndex(scale, e, its[i].date) <= n
    IN  [k \in 1..(last + 1) |->
            Cardinality({i \in DOMAIN its :
                            IntervalIndex(scale, e, its[i].date) = k - 1})]

\* a frequency call with one of the four scales on a non-empty collection
FreqCall ==
    /\ op \in {"mean_freq", "median_freq", "stdev_freq"}
    /\ args.scale \in Scales
    /\ items # <<>>

C22_Witness ==
    /\ op = "statistics"
    /\ Len(items) = 1
    /\ items[1].date.day = 31
    /\ res.stdev_freq_monthly = Num(0)
    /\ res.mean_freq_monthly = Num(10000)
    /\ res.max_amount = Cents(items[1].amount)

-----------------------------------------------------------------------------
(* Serialisation: Transaction.to_datestr_dict, Transactions.to_json and    *)
(* Transactions.from_json.  A JSON document is the list of its objects; a   *)
(* JSON number is the text json.dumps writes for it, a JSON string the      *)
(* Python string, null is JsonNull.                                         *)

DigitChars == <<"0", "1", "2", "3", "4", "5", "6", "7", "8", "9">>

\* str(n) of a natural number
RECURSIVE FormatNat(_)
FormatNat(n) ==
    IF n < 10 THEN <<DigitChars[n + 1]>>
    ELSE FormatNat(n \div 10) \o <<DigitChars[(n % 10) + 1]>>

\* s with zeros in front, up to the width w
RECURSIVE ZeroPad(_, _)
ZeroPad(s, w) == IF Len(s) >= w THEN s ELSE ZeroPad(<<"0">> \o s, w)

\* date.strftime(DATE_FORMAT).  %Y of a year below 1000 has four digits or
\* fewer, as the C library of the platform writes it: `padded` is that choice.
strftime(d, padded) ==
    (IF padded THEN ZeroPad(FormatNat(d.year), 4) ELSE FormatNat(d.year))
    \o <<"/">> \o ZeroPad(FormatNat(d.month), 2)
    \o <<"/">> \o ZeroPad(FormatNat(d.day), 2)

\* datetime.datetime.strptime(s, DATE_FORMAT) raises ValueError: %Y takes
\* four digits, %m and %d one or two, and the date must exist
StrptimeFails(s) ==
    LET p == Split(s)
    IN  \/ Len(p) # 3
        \/ \E i \in DOMAIN p : NotAnInt(p[i])
        \/ Len(p[1]) # 4
        \/ Len(p[2]) > 2
        \/ Len(p[3]) > 2
        \/ ParseInt(p[1]) < 1
        \/ ParseInt(p[2]) \notin 1..12
        \/ ParseInt(p[3]) \notin 1..MonthLen(ParseInt(p[1]), ParseInt(p[2]))

\* datetime.datetime.strptime(s, DATE_FORMAT).date()
strptime(s) == LET p == ParseDateStr(s) IN Date(p[1], p[2], p[3])

\* repr(x) of the float x of c cents, as json.dumps writes it: the shortest
\* decimal text, with one fractional digit at least
FloatRepr(c) ==
    LET a == IF c < 0 THEN -c ELSE c
        cents == a % 100
        frac == IF cents % 10 = 0 THEN FormatNat(cents \div 10)
                ELSE ZeroPad(FormatNat(cents), 2)
    IN  (IF c < 0 THEN <<"-">> ELSE <<>>)
        \o FormatNat(a \div 100) \o <<".">> \o frac

\* float(s) of a decimal text with a point, in cents
ParseFloat(s) ==
    LET neg == s # <<>> /\ s[1] = "-"
        body == IF neg THEN Tail(s) ELSE s
        dot == CHOOSE i \in DOMAIN body : body[i] = "."
        whole == SubSeq(body, 1, dot - 1)
        frac == SubSeq(body, dot + 1, Len(body))
        cents == IF Len(frac) = 1 THEN 10 * ParseInt(frac)
                 ELSE ParseInt(SubSeq(frac, 1, 2))
        a == 100 * ParseInt(whole) + cents
    IN  IF neg THEN -a ELSE a

JsonNull == [null |-> TRUE]

\* Transaction.to_datestr_dict(): the fields, the date as its text
to_datestr_dict(t, padded) == [t EXCEPT !.date = strftime(t.date, padded)]

\* json.dumps of one such dictionary
JsonObject(rep) ==
    [account |-> rep.account,
     amount |-> FloatRepr(rep.amount),
     balance |-> FloatRepr(rep.balance),
     bank |-> rep.bank,
     date |-> rep.date,
     desc |-> rep.desc,
     name |-> IF rep.name = None THEN JsonNull ELSE rep.name[1],
     note |-> IF rep.note = None THEN JsonNull ELSE rep.note[1],
     tags |-> rep.tags]

\* Transactions.to_json()
to_json(its, padded) ==
    [i \in DOMAIN its |-> JsonObject(to_datestr_dict(its[i], padded))]

\* json.loads of one object, and Transaction.from_datestr_dict of it
from_datestr_dict(obj) ==
    Transaction(obj.account, ParseFloat(obj.amount), ParseFloat(obj.balance),
                obj.bank, strptime(obj.date), obj.desc,
                IF obj.name = JsonNull THEN None ELSE Some(obj.name),
                IF obj.note = JsonNull THEN None ELSE Some(obj.note),
                obj.tags)

\* the exception Transactions.from_json raises, "" when it raises none
FromJsonError(doc) ==
    IF \E i \in DOMAIN doc : StrptimeFails(doc[i].date) THEN "ValueError"
    ELSE ""

\* Transactions.from_json(jsonstr).items
from_json(doc) == [i \in DOMAIN doc |-> from_datestr_dict(doc[i])]

\* T7 is dated in a year of three digits; T8 and T9 have amounts and
\* balances of one, two and no fractional digits.
D7 == Date(999, 1, 5)
T7 == Transaction(S_ck, -375, 6745, S_b1, D7, S_PZ1, None, None, <<>>)
T8 == Transaction(S_sv, 410, 5, S_b2, D2, S_TR, Some(S_Pi), None, <<S_food>>)
T9 == Transaction(S_sv, -400, -1250, S_b2, D6, S_TR, None, Some(<<>>), <<>>)

JsonPool == {T1, T2, T5, T7, T8, T9}

\* C.to_json()
CallToJson ==
    /\ op = "new"
    /\ \E padded \in BOOLEAN :
          /\ args' = [padded |-> padded]
          /\ res' = to_json(items, padded)
    /\ exc' = ""
    /\ op' = "to_json"
    /\ UNCHANGED <<items, other>>

\* Transactions.from_json(J), on the text J the to_json call returned
CallFromJson ==
    /\ op = "to_json"
    /\ exc' = FromJsonError(res)
    /\ res' = IF FromJsonError(res) = "" THEN from_json(res) ELSE <<>>
    /\ op' = "from_json"
    /\ UNCHANGED <<items, other, args>>

InitJson ==
    /\ items \in SeqsUpTo(JsonPool, MaxLen)
    /\ other = <<>>
    /\ op = "new"
    /\ args = <<>>
    /\ res = <<>>
    /\ exc = ""

NextJson == CallToJson \/ CallFromJson

SpecJson == InitJson /\ [][NextJson]_vars

-----------------------------------------------------------------------------
(* Claims about serialisation.                                             *)

\* C21: from_json(C.to_json()) has the transactions of C in the same order,
\* each agreeing with its original on all nine fields.
C21_JsonRoundTrip ==
    op = "from_json" => exc = "" /\ res = items

-----------------------------------------------------------------------------
(* Objects.  To tell a copy from the object it was copied from, a          *)
(* transaction object is the record of its nine fields together with its   *)
(* address oid.  A write to a field of the object at an address shows      *)
(* through every reference to that address.  The operations above read     *)
(* the nine fields only, and carry the address along.                      *)

\* the transaction t as the object at the address oid
Object(t, oid) ==
    [account |-> t.account, amount |-> t.amount, balance |-> t.balance,
     bank |-> t.bank, date |-> t.date, desc |-> t.desc,
     name |-> t.name, note |-> t.note, tags |-> t.tags, oid |-> oid]

\* a collection of the transactions of ts, each an object of its own, at the
\* addresses behind base
Objects(ts, base) == [i \in DOMAIN ts |-> Object(ts[i], base + i)]

\* the addresses of the objects of a list
Oids(its) == {its[i].oid : i \in DOMAIN its}

\* the highest address of a set of addresses, 0 for none
Top(S) == IF S = {} THEN 0 ELSE CHOOSE n \in S : \A m \in S : m <= n

\* the elements of a list handed on as they are, with no copy made
same_objects(its, base) == its

\* copy.deepcopy of the transactions of a list: every copy is a new object,
\* at an address behind base, with the fields of the one it was copied from
deepcopy(its, base) == [i \in DOMAIN its |-> [its[i] EXCEPT !.oid = base + i]]

\* the addresses in use by the two collections the calls are made on; what an
\* earlier call returned is dropped when the next call returns
Live == Top(Oids(items) \cup Oids(other))

\* the transaction objects of what the last call returned
ResultObjects ==
    CASE op \in {"filter", "sort", "merge"} -> Oids(res)
      [] op = "group" -> UNION {Oids(e.items) : e \in res}
      [] OTHER -> {}

\* the keywords of the filter calls made on the objects
FrameKwargs ==
    {[bank |-> Crit("str", S_b1)],
     WithNegate([bank |-> Crit("str", S_b1)], TRUE),
     [amount |-> Crit("str", <<"-">>)]}

\* the arguments of the group calls made on the objects
FrameGroupArgs ==
    [by : {"bank-account", "date-monthly", "amount", "tags"},
     drange : {DefaultDrange}, include_empty : {FALSE}, interval : {1}]

\* C.filter(**kwargs): the kept transactions are copied one by one, and a
\* collection of fewer than two is copied whole
FrameFilter ==
    /\ \E kwargs \in FrameKwargs :
          /\ args' = kwargs
          /\ res' = deepcopy(Filter(items, kwargs), Live)
    /\ op' = "filter"
    /\ exc' = ""
    /\ UNCHANGED <<items, other>>

\* C.sort(key): a copy of the list is sorted
FrameSort ==
    /\ \E key \in {"date", "amount"} :
          /\ args' = key
          /\ res' = Sort(deepcopy(items, Live), key, FALSE)
    /\ op' = "sort"
    /\ exc' = ""
    /\ UNCHANGED <<items, other>>

\* C.group(by): the buckets hold the objects of self.sort(), a copy
FrameGroup ==
    /\ \E a \in FrameGroupArgs :
          /\ args' = a
          /\ res' = Group(deepcopy(items, Live), a.by, a.drange,
                          a.include_empty, a.interval)
    /\ op' = "group"
    /\ exc' = ""
    /\ UNCHANGED <<items, other>>

\* Transactions.merge(C, other): every transaction is copied on its way in,
\* and the merged list is copied again by the sort
FrameMerge ==
    /\ args' = <<>>
    /\ res' = deepcopy(Merge(<<deepcopy(items, Live),
                               deepcopy(other, Live + Len(items))>>), Live)
    /\ op' = "merge"
    /\ exc' = ""
    /\ UNCHANGED <<items, other>>

\* C.statistics(): numbers only
FrameStatistics ==
    /\ args' = <<>>
    /\ res' = statistics(items)
    /\ op' = "statistics"
    /\ exc' = ""
    /\ UNCHANGED <<items, other>>

\* the amount the caller writes into a returned transaction
Written == 12345

\* the list its after the write  amount = v  to the object at the address oid
Write(its, oid, v) ==
    [i \in DOMAIN its |->
        IF its[i].oid = oid THEN [its[i] EXCEPT !.amount = v] ELSE its[i]]

\* r.amount = Written, for a transaction r of what the last call returned
SetAmount ==
    /\ \E oid \in ResultObjects :
          /\ items' = Write(items, oid, Written)
          /\ other' = Write(other, oid, Written)
          /\ res' = IF op = "group"
                    THEN {Entry(e.key, Write(e.items, oid, Written)) : e \in res}
                    ELSE Write(res, oid, Written)
          /\ res' # res
    /\ UNCHANGED <<op, args, exc>>

\* the collections the calls are made on: C of up to two transactions and a
\* second collection of up to one, every transaction an object of its own
FramePool == {G1, G2, G4}

InitFrame ==
    /\ \E ts \in SeqsUpTo(FramePool, MaxMergeLen) :
          items = Objects(ts, 0)
    /\ \E ts \in SeqsUpTo(FramePool, MaxOtherLen) :
          other = Objects(ts, Len(items))
    /\ op = "new"
    /\ args = <<>>
    /\ res = <<>>
    /\ exc = ""

NextFrame ==
    FrameFilter \/ FrameSort \/ FrameGroup \/ FrameMerge \/ FrameStatistics
        \/ SetAmount

SpecFrame == InitFrame /\ [][NextFrame]_vars

\* C24: over any sequence of filter, sort, group, merge and statistics calls
\* on a collection C, and of writes to the transactions they return, C holds
\* the same transactions in the same order with every field unchanged, and
\* no transaction object of a returned collection or bucket is an object of C.
C24_InputsUntouched ==
    [][/\ items' = items
       /\ other' = other
       /\ ResultObjects' \cap (Oids(items') \cup Oids(other')) = {}]_vars

\* C24 witness: a transaction returned by sort has been written to, and the
\* transaction of C it was copied from still has its own amount.
C24_Witness ==
    /\ op = "sort"
    /\ Len(items) = 2
    /\ \E i, j \in DOMAIN items :
          /\ res[j].amount = Written
          /\ TxEq([res[j] EXCEPT !.amount = items[i].amount], items[i])
          /\ items[i].amount # Written
          /\ res[j].oid # items[i].oid

-----------------------------------------------------------------------------
(* Construction of a Transaction.  Here, and here only, an amount or a     *)
(* balance is an integer number of tenths of a cent, so that a value with  *)
(* three decimal places can be handed to the constructor.                  *)

\* the amounts and balances, in tenths of a cent, the constructor is called
\* with: 1.30, -3.75, 0.0, 1.234, -3.756 and 19.189
GivenValues == {1300, -3750, 0, 1234, -3756, 19189}

\* the longest list of constructed transactions
MaxConstructed == 2

\* Transaction(account=.., amount=a, balance=b, bank=.., date=.., desc=..):
\* the object the dataclass constructor returns is added to the list
Construct ==
    /\ Len(items) < MaxConstructed
    /\ \E a, b \in GivenValues :
          /\ args' = Append(args, [amount |-> a, balance |-> b])
          /\ items' = Append(items,
                             Transaction(S_ck, a, b, S_b1, D1, S_TR,
                                         None, None, <<>>))
          /\ res' = Transaction(S_ck, a, b, S_b1, D1, S_TR, None, None, <<>>)
    /\ op' = "Transaction"
    /\ UNCHANGED <<other, exc>>

InitConstruct ==
    /\ items = <<>>
    /\ other = <<>>
    /\ op = "new"
    /\ args = <<>>
    /\ res = <<>>
    /\ exc = ""

NextConstruct == Construct

SpecConstruct == InitConstruct /\ [][NextConstruct]_vars

\* v, in tenths of a cent, has at most two decimal places
TwoPlaces(v) == v % 10 = 0

\* stored is given rounded to two decimal places: a whole number of cents, and
\* none nearer to given (a value halfway between two may go either way)
RoundedTo2(stored, given) ==
    /\ TwoPlaces(stored)
    /\ stored - given <= 5
    /\ given - stored <= 5

\* C25: every constructed transaction holds the amount and the balance it was
\* constructed with rounded to two decimal places.
C25_StoredRounded ==
    \A i \in DOMAIN items :
        /\ RoundedTo2(items[i].amount, args[i].amount)
        /\ RoundedTo2(items[i].balance, args[i].balance)

-----------------------------------------------------------------------------
(* Parser.parse_credit_csv_content (src/src/tcat/parser.py).  The CSV      *)
(* content is the list of the rows csv.DictReader yields, each the record  *)
(* of its Date, Name, Memo and Amount columns, all of them strings.        *)

\* s.replace(c, '')
WithoutChar(s, c) == LET keep(x) == x # c IN SelectSeq(s, keep)

\* round(float(s), 2), in cents, of a decimal text with no point or with a
\* point and one or two digits behind it
FloatOf(s) ==
    IF \E i \in DOMAIN s : s[i] = "." THEN ParseFloat(s)
    ELSE IF s # <<>> /\ s[1] = "-" THEN -100 * ParseInt(Tail(s))
         ELSE 100 * ParseInt(s)

\* Parser.amount_from_str(dstr), in cents
amount_from_str(dstr) ==
    LET no_currency == WithoutChar(dstr, "$")
    IN  IF Contains(dstr, <<"(">>) /\ Contains(dstr, <<")">>)
        THEN -1 * FloatOf(WithoutChar(WithoutChar(no_currency, "("), ")"))
        ELSE FloatOf(no_currency)

\* YEAR_FIRST_REGEX.match(date_str)
YearFirst(date_str) ==
    LET p == Split(date_str)
    IN  /\ Len(p) = 3
        /\ \A i \in DOMAIN p : ~NotAnInt(p[i])
        /\ Len(p[1]) = 4
        /\ Len(p[2]) \in 1..2
        /\ Len(p[3]) \in 1..2

\* datetime.datetime.strptime(date_str, year_format).date(), with the format
\* %Y/%m/%d for a text that starts with the year and %m/%d/%Y for any other
ParseCsvDate(date_str) ==
    LET p == ParseDateStr(date_str)
    IN  IF YearFirst(date_str) THEN Date(p[1], p[2], p[3])
        ELSE Date(p[3], p[1], p[2])

\* the dictionary appended to tdata for one row
TData(entry, card_name, card_issuer) ==
    [account |-> card_name,
     amount |-> amount_from_str(entry.Amount),
     bank |-> card_issuer,
     date |-> ParseCsvDate(entry.Date),
     desc |-> entry.Name \o <<" ">> \o entry.Memo,
     note |-> None]

\* the balances written into the first n dictionaries of the sorted tdata
RECURSIVE BalancesOf(_, _, _, _)
BalancesOf(tdata, n, ref_bal_start, ref_bal) ==
    IF n = 0 THEN <<>>
    ELSE LET prev == BalancesOf(tdata, n - 1, ref_bal_start, ref_bal)
         IN  Append(prev,
                    IF n = 1
                    THEN IF ref_bal_start THEN ref_bal + tdata[1].amount
                         ELSE ref_bal
                    ELSE IF ref_bal_start THEN prev[n - 1] + tdata[n].amount
                         ELSE prev[n - 1] - tdata[n - 1].amount)

\* the exception parse_credit_csv_content raises, "" when it raises none
ParseCreditError(end_balance, start_balance) ==
    IF end_balance # None /\ start_balance # None THEN "Exception" ELSE ""

\* Parser().parse_credit_csv_content(card_name, card_issuer, content,
\* end_balance, start_balance).items, for the calls that raise nothing
parse_credit_csv_content(card_name, card_issuer, content, end_balance, start_balance) ==
    LET ref_bal_start == end_balance = None
        ref_bal == IF end_balance = None
                   THEN IF start_balance = None THEN 0 ELSE start_balance[1]
                   ELSE end_balance[1]
        rows == [i \in DOMAIN content |->
                    TData(content[i], card_name, card_issuer)]
        tdata == Sort(rows, "date", ~ref_bal_start)
        bals == BalancesOf(tdata, Len(tdata), ref_bal_start, ref_bal)
        transactions ==
            [i \in DOMAIN tdata |->
                Transaction(tdata[i].account, tdata[i].amount, bals[i],
                            tdata[i].bank, tdata[i].date, tdata[i].desc,
                            None, tdata[i].note, <<>>)]
    IN  Sort(transactions, "date", FALSE)

\* a row of the CSV content
Row(date, name, memo, amount) ==
    [Date |-> date, Name |-> name, Memo |-> memo, Amount |-> amount]

\* the rows of the tests' CREDIT_CSV_CONTENT (strings shortened), and a
\* fourth row dated as the first one is
CsvRows ==
    {Row(<<"0", "7", "/", "2", "2", "/", "2", "0", "2", "0">>, S_Pi, <<"2">>,
         <<"-", "$", "2", ".", "2", "1">>),
     Row(<<"8", "/", "1", "9", "/", "2", "0", "2", "0">>, S_Pi, <<"1">>,
         <<"(", "$", "8", ".", "1", "5", ")">>),
     Row(<<"2", "0", "2", "1", "/", "0", "2", "/", "0", "3">>, S_TR, <<";">>,
         <<"$", "3", "0", ".", "0", "0">>),
     Row(<<"2", "0", "2", "0", "/", "7", "/", "2", "2">>, S_Sub, <<"3">>,
         <<"$", "5">>)}

\* the most rows of one CSV content
MaxRows == 3

\* the reference balances of the calls, in cents
RefBalances == {None, Some(0), Some(1000)}

\* Parser().parse_credit_csv_content(.., content, end_balance, start_balance)
CallParseCredit ==
    /\ op = "new"
    /\ \E end_balance, start_balance \in RefBalances :
          /\ args' = [end_balance |-> end_balance,
                      start_balance |-> start_balance]
          /\ exc' = ParseCreditError(end_balance, start_balance)
          /\ res' = IF ParseCreditError(end_balance, start_balance) = ""
                    THEN parse_credit_csv_content(S_ck, S_b1, items,
                                                  end_balance, start_balance)
                    ELSE <<>>
    /\ op' = "parse_credit_csv_content"
    /\ UNCHANGED <<items, other>>

\* items is the CSV content the call is made on
InitParse ==
    /\ items \in SeqsUpTo(CsvRows, MaxRows)
    /\ other = <<>>
    /\ op = "new"
    /\ args = <<>>
    /\ res = <<>>
    /\ exc = ""

NextParse == CallParseCredit

SpecParse == InitParse /\ [][NextParse]_vars

\* C26: in the collection parse_credit_csv_content returns, in returned
\* order, with a start balance s (0 when neither bound is given) the first
\* balance is s plus the first amount, with an end balance e the last balance
\* is e, and every later balance is the balance before it plus its own amount.
C26_RunningBalance ==
    (op = "parse_credit_csv_content" /\ exc = "" /\ res # <<>>)
    => /\ args.end_balance = None
            => res[1].balance =
                   (IF args.start_balance = None THEN 0
                    ELSE args.start_balance[1]) + res[1].amount
       /\ args.end_balance # None
            => res[Len(res)].balance = args.end_balance[1]
       /\ \A i \in 2..Len(res) :
             res[i].balance = res[i - 1].balance + res[i].amount

-----------------------------------------------------------------------------
(* Categorizer.cat (src/src/tcat/categorizer.py).  A rule's pattern is a   *)
(* literal text, and match.search(desc) the substring test.                *)

S_misc == <<"m", "c">>
S_gas == <<"g", "s">>
S_extra == <<"x", "t">>

\* self.data of the tests' DATA_CONTENT (strings shortened): the rules d2 in
\* the order the two loops visit them, each with the tags of its file d1
DATA ==
    <<[name |-> S_Pi, match |-> <<"p", "z">>, d1tags |-> <<S_food>>,
       tags |-> <<S_pizza>>],
      [name |-> S_Sub, match |-> <<"s", "u", "b">>, d1tags |-> <<S_food>>,
       tags |-> <<S_subs>>],
      [name |-> <<"G", "a", "s">>, match |-> S_gas, d1tags |-> <<S_misc>>,
       tags |-> <<S_gas>>]>>

\* the rules whose pattern is found in the lowered description
Matching(t) == {i \in DOMAIN DATA : Contains(Lower(t.desc), DATA[i].match)}

\* the lists list(set(ntags)) can be: the distinct tags, in any order
Orderings(ntags) ==
    LET S == {ntags[i] : i \in DOMAIN ntags}
    IN  {s \in [1..Cardinality(S) -> S] :
            \A i, j \in DOMAIN s : i # j => s[i] # s[j]}

\* the transactions self.cat(t, merge, tags) can return for a Transaction t:
\* the first rule that matches names it and tags it, and with no match the
\* copy is returned as it is
cat_one(t, merge, tags) ==
    IF Matching(t) = {} THEN {t}
    ELSE LET d2 == DATA[CHOOSE i \in Matching(t) :
                            \A j \in Matching(t) : i <= j]
             ntags == (IF merge THEN t.tags ELSE <<>>)
                      \o tags \o d2.d1tags \o d2.tags
         IN  {Transaction(t.account, t.amount, t.balance, t.bank, t.date,
                          t.desc, Some(d2.name), t.note, new) :
                 new \in Orderings(ntags)}

\* the lists self.cat(ts, merge, tags) can return for a Transactions ts: each
\* transaction goes through  self.cat(t, merge=merge)
cat_all(its, merge, tags) ==
    {s \in [DOMAIN its -> UNION {cat_one(its[i], merge, <<>>) : i \in DOMAIN its}] :
        \A i \in DOMAIN its : s[i] \in cat_one(its[i], merge, <<>>)}

\* the transactions cat is called on: T1..T4 without name and tags, and T1
\* with its tags
CatPool ==
    {[T1 EXCEPT !.name = None, !.tags = <<>>],
     T2,
     [T4 EXCEPT !.name = None, !.tags = <<>>],
     T1}

\* the longest collection handed to cat
MaxCatLen == 2

\* the lists of extra tags of the calls
ExtraTags == {<<>>, <<S_extra>>, <<S_extra, S_food>>}

\* Categorizer.cat(t, merge, tags), for a Transaction t of the collection;
\* res is the list of the one transaction returned
CallCatTransaction ==
    /\ op = "new"
    /\ \E i \in DOMAIN items, merge \in BOOLEAN, tags \in ExtraTags :
          /\ args' = [type |-> "Transaction", arg |-> <<items[i]>>,
                      merge |-> merge, tags |-> tags]
          /\ \E r \in cat_one(items[i], merge, tags) : res' = <<r>>
    /\ op' = "cat"
    /\ UNCHANGED <<items, other, exc>>

\* Categorizer.cat(C, merge, tags), for the Transactions C
CallCatTransactions ==
    /\ op = "new"
    /\ \E merge \in BOOLEAN, tags \in ExtraTags :
          /\ args' = [type |-> "Transactions", arg |-> items,
                      merge |-> merge, tags |-> tags]
          /\ res' \in cat_all(items, merge, tags)
    /\ op' = "cat"
    /\ UNCHANGED <<items, other, exc>>

InitCat ==
    /\ items \in SeqsUpTo(CatPool, MaxCatLen)
    /\ other = <<>>
    /\ op = "new"
    /\ args = <<>>
    /\ res = <<>>
    /\ exc = ""

NextCat == CallCatTransaction \/ CallCatTransactions

SpecCat == InitCat /\ [][NextCat]_vars

\* C27: every transaction of what cat(arg, tags=extra) returns has every tag
\* of extra, for a Transaction and for a Transactions, matched or not.
C27_ExtraTagsAdded ==
    op = "cat"
    => \A i \in DOMAIN res :
          \A k \in DOMAIN args.tags : InList(args.tags[k], res[i].tags)

-----------------------------------------------------------------------------
(* The legacy function tfilter (src/tcat.py), called with the amount       *)
(* keyword as a string and with negate; the other criteria are left at     *)
(* their default None, so that their blocks are passed over.               *)

S_deposit == <<"d", "e", "p", "o", "s", "i", "t">>
S_withdrawal == <<"w", "i", "t", "h", "d", "r", "a", "w", "a", "l">>
S_withdawal == <<"w", "i", "t", "h", "d", "a", "w", "a", "l">>

\* the two lists the amount block tests amount.lower() against
LegacyDepositTokens == {<<"+">>, <<"d">>, S_deposit}
LegacyWithdrawalTokens == {<<"-">>, <<"w">>, S_withdawal}

\* the amount block of tfilter passes over the transaction t (continue)
LegacySkipAmount(t, amount, negate) ==
    \/ /\ Lower(amount) \in LegacyDepositTokens
       /\ IF negate THEN t.amount > 0 ELSE t.amount <= 0
    \/ /\ Lower(amount) \in LegacyWithdrawalTokens
       /\ IF negate THEN t.amount < 0 ELSE t.amount >= 0

\* the exception tfilter raises, "" when it raises none: max() of no dates
TfilterError(transactions) ==
    IF transactions = <<>> THEN "ValueError" ELSE ""

\* tfilter(transactions, amount=amount, negate=negate), for a string amount
tfilter(transactions, amount, negate) ==
    LET keep(t) == ~LegacySkipAmount(t, amount, negate)
    IN  SelectSeq(transactions, keep)

\* the strings the calls are made with
AmountStrings ==
    {<<"+">>, <<"d">>, S_deposit, <<"-">>, <<"w">>, S_withdrawal, S_withdawal,
     <<"D">>, <<"x">>}

\* the transactions the calls are made on: a withdrawal, a deposit and a
\* transaction of amount zero
LegacyPool == {T1, T2, T5}

\* tfilter(transactions, amount=amount, negate=negate)
CallTfilter ==
    /\ op = "new"
    /\ \E amount \in AmountStrings, negate \in BOOLEAN :
          /\ args' = [amount |-> amount, negate |-> negate]
          /\ res' = IF TfilterError(items) = ""
                    THEN tfilter(items, amount, negate)
                    ELSE <<>>
    /\ exc' = TfilterError(items)
    /\ op' = "tfilter"
    /\ UNCHANGED <<items, other>>

InitLegacy ==
    /\ items \in SeqsUpTo(LegacyPool, MaxLen)
    /\ other = <<>>
    /\ op = "new"
    /\ args = <<>>
    /\ res = <<>>
    /\ exc = ""

NextLegacy == CallTfilter

SpecLegacy == InitLegacy /\ [][NextLegacy]_vars

\* C28: tfilter(transactions, amount=s) keeps exactly the transactions with
\* an amount below zero for s one of -, w and withdrawal, and exactly those
\* with an amount above zero for s one of +, d and deposit.
C28_LegacyAmountTokens ==
    (op = "tfilter" /\ exc = "" /\ ~args.negate)
    => /\ args.amount \in {<<"-">>, <<"w">>, S_withdrawal}
            => res = LET negative(t) == t.amount < 0
                     IN  SelectSeq(items, negative)
       /\ args.amount \in {<<"+">>, <<"d">>, S_deposit}
            => res = LET positive(t) == t.amount > 0
                     IN  SelectSeq(items, positive)

-----------------------------------------------------------------------------
(* Simulator (src/src/tcat/prediction.py).  The simulator is built on the  *)
(* collection `items`, whose transactions are all of one bank and account, *)
(* so that self.data holds that one pair or nothing.  run is followed day  *)
(* by day: `other` is generated[bank][account], and args holds self.data   *)
(* and the arguments and the loop variable of run.  The draws from         *)
(* numpy.random.normal are choices: with a standard deviation of zero the  *)
(* draw is the mean, and any number otherwise.                             *)

S_simulated == <<"s", "i", "m">>
S_suffix == <<"-", "P">>

\* the exception Simulator(transactions) raises, "" when it raises none
SimulatorError(transactions) ==
    IF \E e \in Group(transactions, "bank-account", DefaultDrange, FALSE, 1) :
           Len(e.items) < 2
    THEN "Exception" ELSE ""

\* the values round(x, 2) can be for the mean m
RoundedValues(m) == IF m.kind = "tie" THEN {m.v, m.v + 1} ELSE {m.v}

\* the standard deviation s is zero
ZeroDeviation(s) ==
    \/ s = Num(0)
    \/ s = Cents(0)
    \/ s.kind = "sqrt" /\ s.num = 0
    \/ s.kind = "stdev" /\ \A i, j \in DOMAIN s.data : s.data[i] = s.data[j]

\* the values self.data[bank][account] can have for the bucket ts of the pair
AccountData(ts) ==
    LET deposits == Filter(ts, [amount |-> Crit("str", <<"+">>)])
        withdrawals == Filter(ts, [amount |-> Crit("str", <<"-">>)])
        last == ts[Len(ts)].date
        latest == Filter(ts, [date |-> Crit("date", last)])
    IN  {[dstats |-> statistics(deposits),
          wstats |-> statistics(withdrawals),
          zero_balance |-> zb,
          zero_date |-> last] :
            zb \in RoundedValues(mean_of(latest, "balance", FALSE))}

\* the amounts, in cents, a draw for a deposit and for a withdrawal is
\* followed with when the standard deviation is not zero
DepositDraws == {0, 125}
WithdrawalDraws == {0, -250}

\* the numbers of deposits or withdrawals of one day: the rounded draw, not
\* below 0 and not above max_per_day
NumbersOf(stats, max_per_day) ==
    IF stats.count = 0 THEN {0}
    ELSE IF ZeroDeviation(stats.stdev_freq_daily)
    THEN {MinOf(stats.mean_freq_daily.v \div 10000, max_per_day)}
    ELSE 0..max_per_day

\* the amounts of one deposit or withdrawal
AmountsOf(stats, draws) ==
    IF stats.count = 0 THEN {}
    ELSE IF ZeroDeviation(stats.stdev_amount) THEN {stats.mean_amount.v}
    ELSE draws

\* current_balance at the start of a day
CurrentBalance(generated, account_data) ==
    IF Len(generated) > 1 THEN generated[Len(generated)].balance
    ELSE account_data.zero_balance

\* the transactions appended for the amounts drawn, from current_balance on
RECURSIVE Generate(_, _, _, _, _)
Generate(amounts, n, current_balance, current_date, name) ==
    IF n = 0 THEN <<>>
    ELSE LET before == Generate(amounts, n - 1, current_balance,
                                current_date, name)
             balance == current_balance + SumOf(SubSeq(amounts, 1, n))
         IN  Append(before,
                    Transaction(S_ck \o S_suffix, amounts[n], balance, S_b1,
                                current_date, name \o FormatNat(n - 1),
                                Some(name), None, <<S_simulated>>))

\* the most days of a run, and the most transactions of a kind on one day
MaxDays == 2
MaxPerDay == 1

\* the collections the simulator is built on
Seed(amount, balance, day) ==
    Transaction(S_ck, amount, balance, S_b1, Date(2020, 1, day), S_TR,
                None, None, <<>>)

SimPool ==
    {Seed(1000, 5000, 1), Seed(-250, 4750, 2), Seed(500, 5251, 2),
     Seed(1000, 6000, 2)}

\* Simulator(transactions)
NewSimulator ==
    /\ op = "new"
    /\ exc' = SimulatorError(items)
    /\ IF SimulatorError(items) # "" \/ items = <<>>
       THEN args' = [data |-> <<>>]
       ELSE \E d \in AccountData(Sort(items, "date", FALSE)) :
               args' = [data |-> <<d>>]
    /\ op' = "Simulator"
    /\ UNCHANGED <<items, other, res>>

\* sim.run(days, account_suffix, max_per_day), up to the loop over the days
RunStart ==
    /\ op = "Simulator"
    /\ exc = ""
    /\ \E days \in 0..MaxDays, max_per_day \in 1..MaxPerDay :
          args' = [data |-> args.data, days |-> days, day |-> 0,
                   max_per_day |-> max_per_day]
    /\ other' = <<>>
    /\ op' = "running"
    /\ UNCHANGED <<items, res, exc>>

\* one pass of the loop over the days, for the one bank and account
RunDay ==
    /\ op = "running"
    /\ args.day < args.days
    /\ IF args.data = <<>> THEN other' = other
       ELSE LET account_data == args.data[1]
                current_date == AddDays(account_data.zero_date, args.day + 1)
                current_balance == CurrentBalance(other, account_data)
            IN  \E nd \in NumbersOf(account_data.dstats, args.max_per_day),
                   nw \in NumbersOf(account_data.wstats, args.max_per_day) :
                  \E da \in [1..nd -> AmountsOf(account_data.dstats, DepositDraws)],
                     wa \in [1..nw -> AmountsOf(account_data.wstats, WithdrawalDraws)] :
                     other' = other
                         \o Generate(da, nd, current_balance, current_date,
                                     <<"D">> \o FormatNat(args.day))
                         \o Generate(wa, nw, current_balance + SumOf(da),
                                     current_date,
                                     <<"W">> \o FormatNat(args.day))
    /\ args' = [args EXCEPT !.day = @ + 1]
    /\ UNCHANGED <<items, op, res, exc>>

\* the return of run: the generated transactions, sorted
RunReturn ==
    /\ op = "running"
    /\ args.day = args.days
    /\ res' = Sort(other, "date", FALSE)
    /\ op' = "run"
    /\ UNCHANGED <<items, other, args, exc>>

InitSim ==
    /\ items \in SeqsUpTo(SimPool, MaxLen)
    /\ other = <<>>
    /\ op = "new"
    /\ args = <<>>
    /\ res = <<>>
    /\ exc = ""

NextSim == NewSimulator \/ RunStart \/ RunDay \/ RunReturn

SpecSim == InitSim /\ [][NextSim]_vars

\* C30: in what run returns the simulated transactions of the account form a
\* running balance from zero_balance on: the first balance is zero_balance
\* plus the first amount, and every later balance is the balance before it
\* plus its own amount, over all the simulated days.
C30_SimulatedRunningBalance ==
    (op = "run" /\ res # <<>>)
    => /\ res = other
       /\ res[1].balance = args.data[1].zero_balance + res[1].amount
       /\ \A i \in 2..Len(res) :
             res[i].balance = res[i - 1].balance + res[i].amount

=============================================================================
